---------------------------- MODULE Spec2Model ----------------------------
(***************************************************************************)
(* A model of the Liszp interpreter core: the value algebra (value.rs),    *)
(* name formatting and CPS conversion (preprocess/fmt.rs,                  *)
(* preprocess/cps.rs), the macro table (preprocess/macros.rs, macros.rs),  *)
(* the trampolining evaluator (eval/evaluator.rs), the REPL (repl.rs),     *)
(* the reader (read.rs) and the error type (error.rs).                     *)
(*                                                                         *)
(* Values are tagged tuples; a Result<Rc<Value>, Error> is either a value, *)
(* <<"Error", message>> (the Err variant) or <<"Panic", message>> (the     *)
(* process aborted by panic!, unreachable!, expect or an index out of      *)
(* range).                                                                 *)
(***************************************************************************)
EXTENDS Integers, Sequences, FiniteSets, TLC

VARIABLES
    exprs,       \* eval_file: the top-level expressions not yet evaluated
    value,       \* Evaluator::eval: the trampoline's current value
    pc,          \* position of the pipeline / of the pure-function drivers
    globals,     \* Evaluator.globals
    macros,      \* the macro table
    evaluated,   \* Evaluator.evaluated
    stdout,      \* what print and println have written
    outcome,     \* what the last call of eval returned
    overflow_checks, \* whether the build checks integer overflow
    last,        \* history: the handler that took the last trampoline step
    halt,        \* history: the value no_continuation returned in this eval
    snapshot,    \* history: globals as they were when this eval started
    called,      \* history: formal parameters of the lambdas called in this eval
    defined,     \* history: names &def has installed in this eval
    src,         \* conversion driver: the source expression
    cps,         \* conversion driver: convert_expr(format_names(src))
    cps2,        \* conversion driver: convert_expr applied to cps
    eqargs,      \* equality driver: the three values compared
    eqres,       \* equality driver: the results of &equals?
    stderr,      \* run_repl: the errors written with eprintln!
    iteration,   \* run_repl: the number of iterations of the loop started
    source,      \* reader driver: the characters of the source text
    read_result, \* reader driver: what read returned for source
    balanced,    \* repl_iteration: what brackets_are_balanced returned last
    error,       \* error driver: the Error built so far
    displayed    \* error driver: the flag and the result of Error::display

evalVars == <<exprs, value, globals, macros, evaluated, stdout, outcome,
              last, halt, snapshot, called, defined>>
cpsVars  == <<src, cps, cps2>>
eqVars   == <<eqargs, eqres>>
replVars == <<stderr, iteration>>
readVars == <<source, read_result, balanced>>
errVars  == <<error, displayed>>

vars == <<pc, overflow_checks, evalVars, cpsVars, eqVars, replVars, readVars, errVars>>

---------------------------------------------------------------------------
(* value.rs: enum Value *)

Nil        == <<"Nil">>
Bool(b)    == <<"Bool", b>>
Integer(i) == <<"Integer", i>>
Float(f)   == <<"Float", f>>
String(s)  == <<"String", s>>
Name(n)    == <<"Name", n>>
Cons(a, d) == <<"Cons", a, d>>
Quote(v)   == <<"Quote", v>>

(* Result<_, Error>: the Err variant, and a panic of the process *)
Error(m)   == <<"Error", m>>
Panic(m)   == <<"Panic", m>>
NoValue    == <<"None">>

IsCons(v)  == v[1] = "Cons"
IsName(v)  == v[1] = "Name"
IsError(r) == r[1] = "Error"
IsPanic(r) == r[1] = "Panic"
IsFail(r)  == r[1] \in {"Error", "Panic"}

(* Value::name *)
name(v) == IF v[1] = "Name" THEN v[2] ELSE ""

(* Value::to_list: Some(list) for Nil and for a chain of Cons (whose       *)
(* improper tail, if any, is dropped), None for every other value.         *)
IsListable(v) == v[1] \in {"Nil", "Cons"}

RECURSIVE to_list(_)
to_list(v) == IF v[1] = "Cons" THEN <<v[2]>> \o to_list(v[3]) ELSE <<>>

(* Value::cons_list and the refcount_list! macro *)
RECURSIVE cons_list(_)
cons_list(xs) == IF xs = <<>> THEN Nil ELSE Cons(Head(xs), cons_list(Tail(xs)))

(* impl PartialEq for Value: there is no arm for two Strings.  A Float is   *)
(* <<"Float", <<n, d>>>>, the number n/d (see the arithmetic below); a NaN *)
(* is <<0, 0>> and is not equal to itself.                                 *)
RECURSIVE ValueEq(_, _)
ValueEq(a, b) ==
    CASE a[1] = "Name"    /\ b[1] = "Name"    -> a[2] = b[2]
      [] a[1] = "Integer" /\ b[1] = "Integer" -> a[2] = b[2]
      [] a[1] = "Float"   /\ b[1] = "Float"   -> a[2] = b[2] /\ a[2] # <<0, 0>>
      [] a[1] = "Bool"    /\ b[1] = "Bool"    -> a[2] = b[2]
      [] a[1] = "Cons"    /\ b[1] = "Cons"    -> ValueEq(a[2], b[2]) /\ ValueEq(a[3], b[3])
      [] a[1] = "Quote"   /\ b[1] = "Quote"   -> ValueEq(a[2], b[2])
      [] a[1] = "Nil"     /\ b[1] = "Nil"     -> TRUE
      [] OTHER -> FALSE

(* Value::substitute replaces the node that is pointer-equal to the        *)
(* conditional found.  The trees handed to the converter come from         *)
(* format_names, which builds every Cons afresh, so a node is identified   *)
(* by its position: a path of tuple indices (2 = car, 3 = cdr).            *)
RECURSIVE substitute(_, _, _)
substitute(expr, path, new) ==
    IF path = <<>> THEN new
    ELSE IF expr[1] = "Cons"
         THEN IF Head(path) = 2
              THEN Cons(substitute(expr[2], Tail(path), new), expr[3])
              ELSE Cons(expr[2], substitute(expr[3], Tail(path), new))
         ELSE expr

RECURSIVE NodeAt(_, _)
NodeAt(expr, path) == IF path = <<>> THEN expr ELSE NodeAt(expr[Head(path)], Tail(path))

---------------------------------------------------------------------------
(* preprocess/fmt.rs *)

(* The identifiers of the model, without the '&' that format_names adds.   *)
BaseNames ==
    {"x", "y", "f", "g", "m", "a", "n",
     "if", "lambda", "quote", "unquote", "defmacro", "def",
     "car", "cdr", "cons", "eval", "equals?", "panic", "print", "println",
     "bool?", "cons?", "float", "float?", "int?", "name?", "nil?", "quote?", "str?",
     "+", "-", "*", "/", "%", "and", "or", "xor", "not",
     "<", ">", "<=", ">=", "==", "!="}

(* name.chars().next() == Some('&') *)
StartsWithAmpersand(s) == s \in {"&" \o n : n \in BaseNames}

RECURSIVE format_names(_)
format_names(v) ==
    CASE v[1] = "Name" ->
            IF v[2] = "" \/ StartsWithAmpersand(v[2]) THEN v ELSE Name("&" \o v[2])
      [] v[1] = "Cons" -> Cons(format_names(v[2]), format_names(v[3]))
      [] OTHER -> v

---------------------------------------------------------------------------
(* preprocess/cps.rs: struct CPSConverter.  The converter's                *)
(* dfs_expr_components is threaded through the operators as dfs; an        *)
(* operator that pushes returns [r |-> its result, dfs |-> the new list].  *)

NoPath == <<0>>

KLabel(i) == Name("@@k" \o ToString(i))

(* create_continuation_label: dfs_expr_components.len() - 1 on a usize.    *)
(* With no component pushed the subtraction overflows: a panic in a build  *)
(* with overflow checks, a wrap to usize::MAX without.                     *)
create_continuation_label(dfs, oc) ==
    IF Len(dfs) = 0
    THEN IF oc
         THEN Panic("attempt to subtract with overflow")
         ELSE Name("@@k18446744073709551615")
    ELSE KLabel(Len(dfs) - 1)

RECURSIVE find_conditional(_)
find_conditional(expr) ==
    IF expr[1] # "Cons" THEN NoPath
    ELSE IF name(expr[2]) = "&if" THEN <<>>
    ELSE IF name(expr[2]) \in {"&lambda", "&quote"} THEN NoPath
    ELSE LET p == find_conditional(expr[2]) IN
         IF p # NoPath THEN <<2>> \o p
         ELSE LET q == find_conditional(expr[3]) IN
              IF q # NoPath THEN <<3>> \o q ELSE NoPath

RECURSIVE move_conditionals_to_top_level(_)
move_conditionals_to_top_level(expr) ==
    LET p == find_conditional(expr) IN
    IF p = NoPath THEN expr
    ELSE LET comps == to_list(NodeAt(expr, p)) IN
         IF Len(comps) = 4
         THEN LET true_case == move_conditionals_to_top_level(substitute(expr, p, comps[3])) IN
              IF IsFail(true_case) THEN true_case
              ELSE LET false_case == move_conditionals_to_top_level(substitute(expr, p, comps[4])) IN
                   IF IsFail(false_case) THEN false_case
                   ELSE cons_list(<<Name("&if"), comps[2], true_case, false_case>>)
         ELSE Error("expected syntax (if <cond> <true-case> <false-case>)")

RECURSIVE AssembleFrom(_, _, _, _)
AssembleFrom(dfs, i, converted, atomic) ==
    IF i = 0 THEN [c |-> converted, atomic |-> atomic]
    ELSE IF IsCons(dfs[i])
         THEN LET continuation ==
                      IF atomic THEN converted
                      ELSE cons_list(<<Name("&lambda"), KLabel(i - 1), converted>>)
              IN AssembleFrom(dfs, i - 1,
                              Cons(dfs[i][2], Cons(continuation, dfs[i][3])), FALSE)
         ELSE AssembleFrom(dfs, i - 1, converted, atomic)

assemble_cps_expression(dfs, continuation, original_value) ==
    LET a == AssembleFrom(dfs, Len(dfs), continuation, TRUE) IN
    IF a.atomic THEN cons_list(<<a.c, original_value>>) ELSE a.c

RECURSIVE convert_expr_with_continuation(_, _, _)
RECURSIVE convert_conditional(_, _, _)
RECURSIVE convert_lambda(_, _)
RECURSIVE convert_quote(_, _, _)
RECURSIVE apply_unquote(_, _, _)
RECURSIVE ApplyUnquoteAll(_, _, _, _)
RECURSIVE recursive_convert_expr(_, _, _)
RECURSIVE ConvertComponents(_, _, _, _)

(* the loop of apply_unquote over the components of a list *)
ApplyUnquoteAll(comps, done, dfs, oc) ==
    IF comps = <<>> THEN [r |-> cons_list(done), dfs |-> dfs]
    ELSE LET st == apply_unquote(Head(comps), dfs, oc) IN
         IF IsFail(st.r) THEN st
         ELSE ApplyUnquoteAll(Tail(comps), Append(done, st.r), st.dfs, oc)

apply_unquote(expr, dfs, oc) ==
    IF ~IsListable(expr) THEN [r |-> expr, dfs |-> dfs]
    ELSE LET components == to_list(expr) IN
         IF components = <<>> THEN [r |-> expr, dfs |-> dfs]
         ELSE IF name(components[1]) = "&unquote"
              THEN IF Len(components) = 2
                   THEN LET st == recursive_convert_expr(components[2], dfs, oc) IN
                        IF IsFail(st.r) THEN st
                        ELSE [r |-> create_continuation_label(st.dfs, oc), dfs |-> st.dfs]
                   ELSE [r |-> Error("Unquote expressions must contain exactly 1 argument"),
                         dfs |-> dfs]
              ELSE ApplyUnquoteAll(components, <<>>, dfs, oc)

convert_quote(components, dfs, oc) ==
    IF Len(components) # 2
    THEN [r |-> Error("unquote expressions take exactly 2 arguments"), dfs |-> dfs]
    ELSE LET st == apply_unquote(components[2], dfs, oc) IN
         IF IsFail(st.r) THEN st
         ELSE LET pushed == Append(st.dfs, cons_list(<<components[1], st.r>>)) IN
              [r |-> create_continuation_label(pushed, oc), dfs |-> pushed]

convert_lambda(components, oc) ==
    IF Len(components) = 3
    THEN LET lambda_continuation == Name("@@k")
             args == IF IsCons(components[2])
                     THEN Cons(lambda_continuation, components[2])
                     ELSE cons_list(<<lambda_continuation, components[2]>>)
             body == convert_expr_with_continuation(components[3], lambda_continuation, oc)
         IN IF IsFail(body) THEN body
            ELSE cons_list(<<components[1], args, body>>)
    ELSE Error("expected syntax (lambda <args> <body>")

(* the loop of recursive_convert_expr over components[1..] *)
ConvertComponents(comps, labels, dfs, oc) ==
    IF comps = <<>> THEN [r |-> cons_list(labels), dfs |-> dfs]
    ELSE LET st == recursive_convert_expr(Head(comps), dfs, oc) IN
         IF IsFail(st.r) THEN st
         ELSE ConvertComponents(Tail(comps), Append(labels, st.r), st.dfs, oc)

recursive_convert_expr(expr, dfs, oc) ==
    IF ~IsListable(expr) THEN [r |-> expr, dfs |-> dfs]
    ELSE LET components == to_list(expr) IN
         IF components = <<>> THEN [r |-> Nil, dfs |-> dfs]
         ELSE CASE name(components[1]) = "&defmacro" -> [r |-> expr, dfs |-> dfs]
                [] name(components[1]) = "&lambda" ->
                       [r |-> convert_lambda(components, oc), dfs |-> dfs]
                [] name(components[1]) = "&quote" -> convert_quote(components, dfs, oc)
                [] OTHER ->
                       LET st == ConvertComponents(Tail(components), <<components[1]>>, dfs, oc) IN
                       IF IsFail(st.r) THEN st
                       ELSE LET pushed == Append(st.dfs, st.r) IN
                            [r |-> create_continuation_label(pushed, oc), dfs |-> pushed]

(* Ok(None) is NoValue *)
convert_conditional(expr, continuation, oc) ==
    IF ~IsListable(expr) THEN NoValue
    ELSE LET components == to_list(expr) IN
         IF components = <<>> \/ name(components[1]) # "&if" THEN NoValue
         ELSE IF Len(components) # 4
              THEN Error("expected syntax (if <conditon> <true case> <false case>)")
              ELSE LET t == convert_expr_with_continuation(components[3], continuation, oc) IN
                   IF IsFail(t) THEN t
                   ELSE LET f == convert_expr_with_continuation(components[4], continuation, oc) IN
                        IF IsFail(f) THEN f
                        ELSE LET conditional_expr ==
                                     cons_list(<<components[1], Name("@@k-if"), t, f>>)
                                 conditional_expr_continuation ==
                                     cons_list(<<Name("&lambda"), Name("@@k-if"), conditional_expr>>)
                             IN convert_expr_with_continuation(
                                    components[2], conditional_expr_continuation, oc)

convert_expr_with_continuation(expr, continuation, oc) ==
    LET restructured == move_conditionals_to_top_level(expr) IN
    IF IsFail(restructured) THEN restructured
    ELSE LET conditional == convert_conditional(expr, continuation, oc) IN
         IF conditional # NoValue THEN conditional
         ELSE LET st == recursive_convert_expr(restructured, <<>>, oc) IN
              IF IsFail(st.r) THEN st.r
              ELSE assemble_cps_expression(st.dfs, continuation, expr)

(* the occurrences of the Name n in a tree *)
RECURSIVE CountName(_, _)
CountName(v, n) ==
    CASE v[1] = "Name"  -> IF v[2] = n THEN 1 ELSE 0
      [] v[1] = "Cons"  -> CountName(v[2], n) + CountName(v[3], n)
      [] v[1] = "Quote" -> CountName(v[2], n)
      [] OTHER -> 0

(* A faulty converter: the initial continuation is a label, not            *)
(* no-continuation.                                                        *)
convert_expr_dropping(expr, oc) ==
    convert_expr_with_continuation(expr, Name("@@k"), oc)

(* A faulty converter: a tree that already holds the initial continuation  *)
(* is returned as it is.                                                   *)
convert_expr_once(expr, oc) ==
    IF CountName(expr, "no-continuation") > 0 THEN expr
    ELSE convert_expr_with_continuation(expr, Name("no-continuation"), oc)

convert_expr(expr, oc) ==
    convert_expr_with_continuation(expr, Name("no-continuation"), oc)

---------------------------------------------------------------------------
(* rug::Integer and rug::Float.  Integers are unbounded.  A Float is a     *)
(* pair <<n, d>> in lowest terms: d > 0 is the number n/d, <<1, 0>> and    *)
(* <<-1, 0>> are the infinities and <<0, 0>> is NaN; rounding to 53 bits   *)
(* and the sign of zero are not modelled.                                  *)

Abs(i)  == IF i < 0 THEN -i ELSE i
Sign(i) == IF i < 0 THEN -1 ELSE IF i > 0 THEN 1 ELSE 0

RECURSIVE Gcd(_, _)
Gcd(a, b) == IF b = 0 THEN a ELSE Gcd(b, a % b)

(* truncating division and remainder of rug::Integer, divisor non-zero *)
TruncDiv(a, b) == Sign(a) * Sign(b) * (Abs(a) \div Abs(b))
TruncRem(a, b) == a - b * TruncDiv(a, b)

NaN == <<0, 0>>
Norm(n, d) ==
    IF d = 0 THEN <<Sign(n), 0>>
    ELSE LET g == Gcd(Abs(n), Abs(d)) IN <<Sign(d) * (n \div g), Abs(d) \div g>>

IntToFloat(i) == <<i, 1>>
FNeg(p)    == <<-p[1], p[2]>>
FAdd(p, q) == IF p[2] = 0 /\ q[2] = 0 THEN (IF p = q THEN p ELSE NaN)
              ELSE Norm(p[1] * q[2] + q[1] * p[2], p[2] * q[2])
FSub(p, q) == FAdd(p, FNeg(q))
FMul(p, q) == Norm(p[1] * q[1], p[2] * q[2])
FInv(p)    == IF p[1] = 0 THEN (IF p[2] = 0 THEN NaN ELSE <<1, 0>>)
              ELSE <<Sign(p[1]) * p[2], Abs(p[1])>>
FDiv(p, q) == FMul(p, FInv(q))
FRem(p, q) == IF p[2] = 0 \/ q = NaN \/ q[1] = 0 THEN NaN
              ELSE IF q[2] = 0 THEN p
              ELSE FSub(p, FMul(q, IntToFloat(TruncDiv(p[1] * q[2], q[1] * p[2]))))
FEq(p, q)  == p = q /\ p # NaN
FLt(p, q)  == p # NaN /\ q # NaN /\ p # q /\
              (IF p[2] = 0 THEN p[1] < 0 ELSE IF q[2] = 0 THEN q[1] > 0
               ELSE p[1] * q[2] < q[1] * p[2])

---------------------------------------------------------------------------
(* eval/evaluator.rs: impl Evaluator.  globals is a function from names to *)
(* values; the handlers are operators of the globals g and the argument    *)
(* list args (a sequence), and yield a value, an Error or a Panic.         *)

Insert(map, k, v) == [n \in DOMAIN map \cup {k} |-> IF n = k THEN v ELSE map[n]]
Range(seq) == {seq[i] : i \in DOMAIN seq}

resolve(g, v) ==
    IF v[1] = "Name"
    THEN IF v[2] \in DOMAIN g THEN g[v[2]] ELSE Error("unbound name")
    ELSE v

(* the names are [names |-> sequence], an error is [err |-> Error] *)
AllNames(values) == \A i \in DOMAIN values : values[i][1] = "Name"

get_arg_names(arg_component) ==
    CASE arg_component[1] = "Cons" ->
            LET values_list == to_list(arg_component) IN
            IF AllNames(values_list)
            THEN [err |-> NoValue, names |-> [i \in DOMAIN values_list |-> values_list[i][2]]]
            ELSE [err |-> Error("Expected name in function argument"), names |-> <<>>]
      [] arg_component[1] = "Name" -> [err |-> NoValue, names |-> <<arg_component[2]>>]
      [] arg_component[1] = "Nil"  -> [err |-> NoValue, names |-> <<>>]
      [] OTHER -> [err |-> Error("Function expected a list of arguments or a single argument in lambda expression"),
                   names |-> <<>>]

(* a later argument of the same name overwrites an earlier one *)
LastIndex(names, n) == CHOOSE i \in DOMAIN names :
                           names[i] = n /\ \A j \in DOMAIN names : names[j] = n => j <= i

build_argument_hashmap(arg_names, arg_values) ==
    IF Len(arg_names) # Len(arg_values)
    THEN [err |-> Error("Function takes n arguments but received m"), map |-> <<>>]
    ELSE [err |-> NoValue,
          map |-> [n \in Range(arg_names) |-> arg_values[LastIndex(arg_names, n)]]]

(* remove_shadowed_arguments and the later arg_map.extend(shadowed) leave  *)
(* arg_map as it was, so the map is passed down without the shadowed names *)
remove_shadowed_arguments(names, arg_map) ==
    [n \in DOMAIN arg_map \ Range(names) |-> arg_map[n]]

RECURSIVE recursively_bind_args(_, _)
recursively_bind_args(expr, arg_map) ==
    CASE expr[1] = "Name" ->
            IF expr[2] \in DOMAIN arg_map THEN arg_map[expr[2]] ELSE expr
      [] expr[1] = "Cons" ->
            IF name(expr[2]) = "&lambda"
            THEN LET lambda_components == to_list(expr) IN
                 IF Len(lambda_components) < 3
                 THEN Panic("index out of bounds")
                 ELSE LET an == get_arg_names(lambda_components[2]) IN
                      IF an.err # NoValue THEN an.err
                      ELSE LET body == recursively_bind_args(
                                   lambda_components[3],
                                   remove_shadowed_arguments(an.names, arg_map))
                           IN IF IsFail(body) THEN body
                              ELSE cons_list(<<lambda_components[1], lambda_components[2], body>>)
            ELSE LET a == recursively_bind_args(expr[2], arg_map) IN
                 IF IsFail(a) THEN a
                 ELSE LET d == recursively_bind_args(expr[3], arg_map) IN
                      IF IsFail(d) THEN d ELSE Cons(a, d)
      [] OTHER -> expr

evaluate_lambda_funcall(g, function, arg_values) ==
    LET resolved == resolve(g, function) IN
    IF IsFail(resolved) THEN resolved
    ELSE IF ~IsListable(resolved)
    THEN Error("function should have syntax (lambda <args> <body>)")
    ELSE LET function_components == to_list(resolved) IN
         IF Len(function_components) # 3
         THEN Error("function should have syntax (lambda <args> <body>)")
         ELSE IF name(function_components[1]) # "&lambda"
         THEN Error("attempt to call a non-function value")
         ELSE LET an == get_arg_names(function_components[2]) IN
              IF an.err # NoValue THEN an.err
              ELSE LET am == build_argument_hashmap(an.names, arg_values) IN
                   IF am.err # NoValue THEN am.err
                   ELSE recursively_bind_args(function_components[3], am.map)

Requoted(v) == IF v[1] \in {"Cons", "Name"} THEN Quote(v) ELSE v

car(g, args) ==
    IF Len(args) # 2 THEN Error("function 'car' takes 1 argument")
    ELSE LET resolved == resolve(g, args[2]) IN
         IF IsFail(resolved) THEN resolved
         ELSE IF resolved[1] # "Quote" THEN Panic("unreachable")
         ELSE IF resolved[2][1] # "Cons"
         THEN Error("function 'cons' expected to receive cons pair")
         ELSE cons_list(<<args[1], Requoted(resolved[2][2])>>)

cdr(g, args) ==
    IF Len(args) # 2 THEN Error("function 'cdr' takes 1 argument")
    ELSE LET resolved == resolve(g, args[2]) IN
         IF IsFail(resolved) THEN resolved
         ELSE IF resolved[1] # "Quote" THEN Panic("unreachable")
         ELSE IF resolved[2][1] # "Cons"
         THEN Error("function 'cons' expected to receive cons pair")
         ELSE cons_list(<<args[1], Requoted(resolved[2][3])>>)

Unquoted(v) == IF v[1] = "Quote" THEN v[2] ELSE v

cons(g, args) ==
    IF Len(args) # 3 THEN Error("function 'cons' expected 2 arguments")
    ELSE LET a == resolve(g, args[2]) IN
         IF IsFail(a) THEN a
         ELSE LET d == resolve(g, args[3]) IN
              IF IsFail(d) THEN d
              ELSE cons_list(<<args[1], Quote(Cons(Unquoted(a), Unquoted(d)))>>)

(* define_value: [r |-> the result, g |-> the globals afterwards] *)
define_value(g, args) ==
    IF Len(args) # 3
    THEN [r |-> Error("expected syntax (def <name> <value>)"), g |-> g]
    ELSE IF args[2][1] = "Name"
         THEN [r |-> cons_list(<<args[1], Nil>>), g |-> Insert(g, args[2][2], args[3])]
         ELSE [r |-> Error("expected name in def expression"), g |-> g]

eval_quoted(g, args, oc) ==
    IF Len(args) # 2 THEN Error("function 'quote' takes exactly one argument")
    ELSE LET resolved == resolve(g, args[2]) IN
         IF IsFail(resolved) THEN resolved
         ELSE LET v == IF resolved[1] = "Quote"
                       THEN convert_expr_with_continuation(resolved[2], args[1], oc)
                       ELSE args[2]
              IN IF IsFail(v) THEN v ELSE cons_list(<<args[1], v>>)

if_expr(g, args) ==
    IF Len(args) # 3
    THEN Error("if expression has syntax (if <condition> <true case> <false case>)")
    ELSE LET cond == resolve(g, args[1]) IN
         IF IsFail(cond) THEN cond
         ELSE LET true_case == resolve(g, args[2]) IN
              IF IsFail(true_case) THEN true_case
              ELSE LET false_case == resolve(g, args[3]) IN
                   IF IsFail(false_case) THEN false_case
                   ELSE IF cond[1] = "Bool"
                        THEN (IF cond[2] THEN true_case ELSE false_case)
                        ELSE Error("if expression expected a boolean condition")

no_continuation(g, args) ==
    IF Len(args) = 1 THEN resolve(g, args[1]) ELSE Panic("unreachable")

panic(args) ==
    IF Len(args) = 2 THEN Panic("user panic")
    ELSE Error("expected syntax (panic <message>)")

(* print_value: [r |-> the result, out |-> what was written to stdout] *)
print_value(g, args, newline) ==
    IF Len(args) # 2
    THEN [r |-> Error("Function print takes 1 argument only"), out |-> <<>>]
    ELSE LET v == resolve(g, args[2]) IN
         IF IsFail(v) THEN [r |-> v, out |-> <<>>]
         ELSE [r |-> cons_list(<<args[1], v>>), out |-> <<<<v, newline>>>>]

quote_value(g, args) ==
    IF Len(args) # 2 THEN Error("function 'quote' takes exactly one value")
    ELSE IF args[2][1] = "Quote" THEN cons_list(<<args[1], args[2]>>)
    ELSE LET resolved == resolve(g, args[2]) IN
         IF IsFail(resolved) THEN resolved
         ELSE cons_list(<<args[1], Quote(resolved)>>)

values_are_equal(g, args) ==
    IF Len(args) # 3 THEN Error("Function 'equals?' takes exactly 2 parameters")
    ELSE LET x == resolve(g, args[2]) IN
         IF IsFail(x) THEN x
         ELSE LET y == resolve(g, args[3]) IN
              IF IsFail(y) THEN y
              ELSE cons_list(<<args[1], Bool(ValueEq(x, y))>>)

(* value_is_bool, value_is_cons, value_is_float, value_is_int,             *)
(* value_is_nil, value_is_str: the same body up to the variant tested      *)
value_is_variant(g, args, variant) ==
    IF Len(args) # 2 THEN Error("function takes exactly one argument")
    ELSE LET resolved == resolve(g, args[2]) IN
         IF IsFail(resolved) THEN resolved
         ELSE cons_list(<<args[1], Bool(Unquoted(resolved)[1] = variant)>>)

value_is_bool(g, args)  == value_is_variant(g, args, "Bool")
value_is_cons(g, args)  == value_is_variant(g, args, "Cons")
value_is_float(g, args) == value_is_variant(g, args, "Float")
value_is_int(g, args)   == value_is_variant(g, args, "Integer")
value_is_nil(g, args)   == value_is_variant(g, args, "Nil")
value_is_str(g, args)   == value_is_variant(g, args, "String")

(* value_is_name does not resolve its operand *)
value_is_name(args) ==
    IF Len(args) # 2 THEN Error("function 'name?' takes exactly one argument")
    ELSE cons_list(<<args[1], Bool(Unquoted(args[2])[1] = "Name")>>)

value_is_quote(g, args) ==
    IF Len(args) # 2 THEN Error("function 'quote?' takes exactly one argument")
    ELSE LET resolved == resolve(g, args[2]) IN
         IF IsFail(resolved) THEN resolved
         ELSE cons_list(<<args[1], Bool(resolved[1] = "Quote")>>)

(* the loop of arithmetic_expression over args[1..]: the first operand     *)
(* that is unbound or not a number ends it                                 *)
RECURSIVE CollectNumbers(_, _, _, _)
CollectNumbers(g, rest, numbers, op) ==
    IF rest = <<>> THEN [err |-> NoValue, numbers |-> numbers]
    ELSE LET arg == resolve(g, Head(rest)) IN
         IF IsFail(arg) THEN [err |-> arg, numbers |-> numbers]
         ELSE IF arg[1] \in {"Float", "Integer"}
              THEN CollectNumbers(g, Tail(rest), Append(numbers, arg), op)
              ELSE [err |-> Error("expression takes numeric arguments"), numbers |-> numbers]

(* integer_arithmetic: rug panics on a division by zero *)
RECURSIVE IntegerReduce(_, _, _)
IntegerReduce(op, result, rest) ==
    IF rest = <<>> THEN Integer(result)
    ELSE LET i == Head(rest)[2] IN
         CASE op = "&+" -> IntegerReduce(op, result + i, Tail(rest))
           [] op = "&-" -> IntegerReduce(op, result - i, Tail(rest))
           [] op = "&*" -> IntegerReduce(op, result * i, Tail(rest))
           [] op = "&/" -> IF i = 0 THEN Panic("division by zero")
                           ELSE IntegerReduce(op, TruncDiv(result, i), Tail(rest))

integer_arithmetic(op, numbers) ==
    LET reduced == IntegerReduce(op, numbers[1][2], Tail(numbers)) IN
    IF IsFail(reduced) THEN reduced
    ELSE IF op = "&-" /\ Len(numbers) = 1 THEN Integer(-reduced[2]) ELSE reduced

AsFloat(v) == IF v[1] = "Float" THEN v[2] ELSE IntToFloat(v[2])

RECURSIVE FloatReduce(_, _, _)
FloatReduce(op, result, rest) ==
    IF rest = <<>> THEN result
    ELSE LET f == AsFloat(Head(rest)) IN
         CASE op = "&+" -> FloatReduce(op, FAdd(result, f), Tail(rest))
           [] op = "&-" -> FloatReduce(op, FSub(result, f), Tail(rest))
           [] op = "&*" -> FloatReduce(op, FMul(result, f), Tail(rest))
           [] op = "&/" -> FloatReduce(op, FDiv(result, f), Tail(rest))

float_arithmetic(op, numbers) ==
    LET reduced == FloatReduce(op, AsFloat(numbers[1]), Tail(numbers)) IN
    IF op = "&-" /\ Len(numbers) = 1 THEN Float(FNeg(reduced)) ELSE Float(reduced)

arithmetic_expression(g, op, args) ==
    IF Len(args) < 2 THEN Error("expression takes at least 1 argument")
    ELSE LET c == CollectNumbers(g, Tail(args), <<>>, op) IN
         IF c.err # NoValue THEN c.err
         ELSE LET result_is_float == \E i \in DOMAIN c.numbers : c.numbers[i][1] = "Float"
                  result == IF result_is_float
                            THEN float_arithmetic(op, c.numbers)
                            ELSE integer_arithmetic(op, c.numbers)
              IN IF IsFail(result) THEN result ELSE cons_list(<<args[1], result>>)

modulo(g, args) ==
    IF Len(args) # 3 THEN Error("modulo expressions take exactly 2 arguments")
    ELSE LET dividend == resolve(g, args[2]) IN
         IF IsFail(dividend) THEN dividend
         ELSE LET divisor == resolve(g, args[3]) IN
              IF IsFail(divisor) THEN divisor
              ELSE CASE dividend[1] = "Float" /\ divisor[1] = "Float" ->
                            cons_list(<<args[1], Float(FRem(dividend[2], divisor[2]))>>)
                     [] dividend[1] = "Float" /\ divisor[1] = "Integer" ->
                            Error("Cannot take the integer modulo of a float")
                     [] dividend[1] = "Integer" /\ divisor[1] = "Integer" ->
                            IF divisor[2] = 0 THEN Panic("division by zero")
                            ELSE cons_list(<<args[1], Integer(TruncRem(dividend[2], divisor[2]))>>)
                     [] OTHER -> Panic("unreachable")

binary_logical_operation(g, op, args) ==
    IF Len(args) # 3 THEN Error("expressions take exactly 2 arguments")
    ELSE LET x == resolve(g, args[2]) IN
         IF IsFail(x) THEN x
         ELSE IF x[1] # "Bool" THEN Error("expressions take boolean arguments")
         ELSE LET y == resolve(g, args[3]) IN
              IF IsFail(y) THEN y
              ELSE IF y[1] # "Bool" THEN Error("expressions take boolean arguments")
              ELSE LET result == CASE op = "&and" -> x[2] /\ y[2]
                                   [] op = "&or"  -> x[2] \/ y[2]
                                   [] op = "&xor" -> x[2] # y[2]
                   IN cons_list(<<args[1], Bool(result)>>)

logical_negation(g, args) ==
    IF Len(args) # 2 THEN Error("not expressions take exactly 1 argument")
    ELSE LET x == resolve(g, args[2]) IN
         IF IsFail(x) THEN x
         ELSE IF x[1] # "Bool" THEN Error("not expressions take a boolean argument")
         ELSE cons_list(<<args[1], Bool(~x[2])>>)

integer_comparison(op, x, y) ==
    Bool(CASE op = "&==" -> x = y
           [] op = "&!=" -> x # y
           [] op = "&<"  -> x < y
           [] op = "&>"  -> x > y
           [] op = "&<=" -> x <= y
           [] op = "&>=" -> x >= y)

float_comparison(op, x, y) ==
    Bool(CASE op = "&==" -> FEq(x, y)
           [] op = "&!=" -> ~FEq(x, y)
           [] op = "&<"  -> FLt(x, y)
           [] op = "&>"  -> FLt(y, x)
           [] op = "&<=" -> FLt(x, y) \/ FEq(x, y)
           [] op = "&>=" -> FLt(y, x) \/ FEq(x, y))

comparison(g, op, args) ==
    IF Len(args) # 3 THEN Error("expressions take exactly 2 values")
    ELSE LET x == resolve(g, args[2]) IN
         IF IsFail(x) THEN x
         ELSE LET y == resolve(g, args[3]) IN
              IF IsFail(y) THEN y
              ELSE IF x[1] = "Integer" /\ y[1] = "Integer"
                   THEN cons_list(<<args[1], integer_comparison(op, x[2], y[2])>>)
                   ELSE IF x[1] \in {"Integer", "Float"} /\ y[1] \in {"Integer", "Float"}
                   THEN cons_list(<<args[1], float_comparison(op, AsFloat(x), AsFloat(y))>>)
                   ELSE Error("expressions take two numeric values")

---------------------------------------------------------------------------
(* Evaluator::eval, lines 70-103: one turn of the while loop.  Handler is  *)
(* the arm of the match that function_name selects; Dispatch is what the   *)
(* turn yields: [r |-> the new value, an Error or a Panic, g |-> the       *)
(* globals afterwards, out |-> what it wrote to stdout].                   *)

Handler(function_name) ==
    CASE function_name = "&bool?"   -> "value_is_bool"
      [] function_name = "&car"     -> "car"
      [] function_name = "&cdr"     -> "cdr"
      [] function_name = "&cons"    -> "cons"
      [] function_name = "&cons?"   -> "value_is_cons"
      [] function_name = "&def"     -> "define_value"
      [] function_name = "&equals?" -> "values_are_equal"
      [] function_name = "&eval"    -> "eval_quoted"
      [] function_name = "&float"   -> "value_is_float"
      [] function_name = "&if"      -> "if_expr"
      [] function_name = "&int?"    -> "value_is_int"
      [] function_name = "&name?"   -> "value_is_name"
      [] function_name = "&nil?"    -> "value_is_nil"
      [] function_name = "no-continuation" -> "no_continuation"
      [] function_name = "&panic"   -> "panic"
      [] function_name \in {"&print", "&println"} -> "print_value"
      [] function_name = "&quote"   -> "quote_value"
      [] function_name = "&quote?"  -> "value_is_quote"
      [] function_name = "&str?"    -> "value_is_str"
      [] function_name \in {"&+", "&-", "&*", "&/"} -> "arithmetic_expression"
      [] function_name = "&%"       -> "modulo"
      [] function_name \in {"&and", "&or", "&xor"} -> "binary_logical_operation"
      [] function_name = "&not"     -> "logical_negation"
      [] function_name \in {"&<", "&>", "&<=", "&>=", "&==", "&!="} -> "comparison"
      [] OTHER -> "evaluate_lambda_funcall"

Pure(g, r) == [r |-> r, g |-> g, out |-> <<>>]

(* A faulty call: it installs the formals in the globals, bound to the     *)
(* arguments, and leaves them there.                                       *)
lambda_funcall_installing(g, function, args) ==
    LET r == evaluate_lambda_funcall(g, function, args) IN
    IF IsFail(r) THEN Pure(g, r)
    ELSE LET am == build_argument_hashmap(
                       get_arg_names(to_list(resolve(g, function))[2]).names, args).map
         IN [r |-> r,
             g |-> [n \in DOMAIN g \cup DOMAIN am |->
                       IF n \in DOMAIN am THEN am[n] ELSE g[n]],
             out |-> <<>>]

(* evaluate_lambda_funcall takes &self: the globals are as before *)
lambda_funcall_turn(g, function, args) ==
    Pure(g, evaluate_lambda_funcall(g, function, args))

Dispatch(g, v, oc) ==
    LET function == v[2]
        function_name == name(v[2])
        h == Handler(function_name)
    IN IF ~IsListable(v[3]) THEN Pure(g, Panic("expected a list of arguments"))
       ELSE LET args == to_list(v[3]) IN
            CASE h = "value_is_bool"    -> Pure(g, value_is_bool(g, args))
              [] h = "car"              -> Pure(g, car(g, args))
              [] h = "cdr"              -> Pure(g, cdr(g, args))
              [] h = "cons"             -> Pure(g, cons(g, args))
              [] h = "value_is_cons"    -> Pure(g, value_is_cons(g, args))
              [] h = "define_value"     ->
                     LET d == define_value(g, args) IN [r |-> d.r, g |-> d.g, out |-> <<>>]
              [] h = "values_are_equal" -> Pure(g, values_are_equal(g, args))
              [] h = "eval_quoted"      -> Pure(g, eval_quoted(g, args, oc))
              [] h = "value_is_float"   -> Pure(g, value_is_float(g, args))
              [] h = "if_expr"          -> Pure(g, if_expr(g, args))
              [] h = "value_is_int"     -> Pure(g, value_is_int(g, args))
              [] h = "value_is_name"    -> Pure(g, value_is_name(args))
              [] h = "value_is_nil"     -> Pure(g, value_is_nil(g, args))
              [] h = "no_continuation"  -> Pure(g, no_continuation(g, args))
              [] h = "panic"            -> Pure(g, panic(args))
              [] h = "print_value"      ->
                     LET p == print_value(g, args, function_name = "&println") IN
                     [r |-> p.r, g |-> g, out |-> p.out]
              [] h = "quote_value"      -> Pure(g, quote_value(g, args))
              [] h = "value_is_quote"   -> Pure(g, value_is_quote(g, args))
              [] h = "value_is_str"     -> Pure(g, value_is_str(g, args))
              [] h = "arithmetic_expression" ->
                     Pure(g, arithmetic_expression(g, function_name, args))
              [] h = "modulo"           -> Pure(g, modulo(g, args))
              [] h = "binary_logical_operation" ->
                     Pure(g, binary_logical_operation(g, function_name, args))
              [] h = "logical_negation" -> Pure(g, logical_negation(g, args))
              [] h = "comparison"       -> Pure(g, comparison(g, function_name, args))
              [] h = "evaluate_lambda_funcall" -> lambda_funcall_turn(g, function, args)

---------------------------------------------------------------------------
(* preprocess/macros.rs: struct Macro, struct MacroExpander, and the       *)
(* entry of Evaluator::eval that runs inside a macro expansion.  The state *)
(* the expander and the evaluator share is st = [macros, g, out].          *)

MaxMacroDepth == 2   \* nested macro expansions followed
MaxMacroSteps == 12  \* trampoline turns followed inside one macro expansion

EmptyMap == [n \in {} |-> Nil]

MacroDef(nm, args, body) == <<"Macro", nm, args, body>>
Diverged == <<"Diverged">>
IsStop(r) == r[1] \in {"Error", "Panic", "Diverged"}

parse_macro_definition(expr) ==
    IF ~IsListable(expr) THEN NoValue
    ELSE LET components == to_list(expr) IN
         IF components = <<>> \/ name(components[1]) # "defmacro" THEN NoValue
         ELSE IF Len(components) # 3
         THEN Error("expected syntax (defmacro <macro-signature> <macro-body>")
         ELSE IF ~IsListable(components[2])
         THEN Error("expected the macro signature to be a list (<name> <args>..)")
         ELSE LET signature_components == to_list(components[2]) IN
              IF ~AllNames(signature_components)
              THEN Error("the macro signature should consist only of names")
              ELSE IF signature_components = <<>> THEN Panic("unreachable")
              ELSE MacroDef(signature_components[1],
                            cons_list(Tail(signature_components)),
                            components[3])

(* HashMap::insert stores the new macro and returns the one it replaced *)
add_macro(table, m) ==
    [err    |-> IF name(m[2]) \in DOMAIN table
                THEN Error("macro has already been defined") ELSE NoValue,
     macros |-> Insert(table, name(m[2]), m)]

to_executable_expression(m, supplied_args) ==
    Cons(cons_list(<<Name("&lambda"), m[3], m[4]>>),
         cons_list([i \in DOMAIN supplied_args |-> Quote(supplied_args[i])]))

With(st, r) == [r |-> r, macros |-> st.macros, g |-> st.g, out |-> st.out]

(* the while loop of eval, run to its end; s is what one turn yielded *)
RECURSIVE Trampoline(_, _, _, _)
RECURSIVE TrampolineAfter(_, _, _, _)
TrampolineAfter(s, st, steps, oc) ==
    IF IsFail(s.r)
    THEN [r |-> s.r, macros |-> st.macros, g |-> s.g, out |-> st.out \o s.out]
    ELSE Trampoline(s.r, [macros |-> st.macros, g |-> s.g, out |-> st.out \o s.out],
                    steps - 1, oc)

Trampoline(v, st, steps, oc) ==
    IF ~IsCons(v) THEN With(st, v)
    ELSE IF steps = 0 THEN With(st, Diverged)
    ELSE TrampolineAfter(Dispatch(st.g, v, oc), st, steps, oc)

RECURSIVE expand_macros(_, _, _, _)
RECURSIVE ExpandComponents(_, _, _, _, _)
RECURSIVE ExpandComponentsAfter(_, _, _, _, _)
RECURSIVE preprocess(_, _, _, _)
RECURSIVE eval(_, _, _, _)

(* the loop of expand_macros over the components; e is one expansion *)
ExpandComponentsAfter(e, comps, new_components, depth, oc) ==
    IF IsStop(e.r) THEN e
    ELSE IF e.r = NoValue
    THEN With(e, Error("Cannot define a macro inside an expression"))
    ELSE ExpandComponents(Tail(comps), Append(new_components, e.r), e, depth, oc)

ExpandComponents(comps, new_components, st, depth, oc) ==
    IF comps = <<>> THEN With(st, cons_list(new_components))
    ELSE ExpandComponentsAfter(expand_macros(Head(comps), st, depth, oc),
                               comps, new_components, depth, oc)

(* Ok(None) is NoValue *)
expand_macros(expr, st, depth, oc) ==
    LET new_macro == parse_macro_definition(expr) IN
    IF IsFail(new_macro) THEN With(st, new_macro)
    ELSE IF new_macro # NoValue
    THEN LET a == add_macro(st.macros, new_macro) IN
         [r |-> a.err, macros |-> a.macros, g |-> st.g, out |-> st.out]
    ELSE IF ~IsListable(expr) THEN With(st, expr)
    ELSE LET components == to_list(expr) IN
         IF components = <<>> THEN With(st, expr)
         ELSE IF name(components[1]) \in DOMAIN st.macros
         THEN IF depth = 0 THEN With(st, Diverged)
              ELSE eval(to_executable_expression(st.macros[name(components[1])],
                                                 Tail(components)),
                        st, depth - 1, oc)
         ELSE ExpandComponents(components, <<>>, st, depth, oc)

(* Preprocessor::preprocess: expand, format, convert *)
PreprocessExpanded(e, oc) ==
    IF IsStop(e.r) \/ e.r = NoValue THEN e
    ELSE With(e, convert_expr(format_names(e.r), oc))

preprocess(expr, st, depth, oc) ==
    PreprocessExpanded(expand_macros(expr, st, depth, oc), oc)

(* Evaluator::eval run to its end; p is what preprocess returned *)
EvalPreprocessed(p, oc) ==
    IF IsStop(p.r) THEN p
    ELSE IF p.r = NoValue THEN With(p, Nil)
    ELSE Trampoline(p.r, p, MaxMacroSteps, oc)

eval(expr, st, depth, oc) ==
    EvalPreprocessed(preprocess(expr, st, depth, oc), oc)

---------------------------------------------------------------------------
(* The pipeline as a state machine: Evaluator::eval_file takes the         *)
(* top-level expressions one at a time; Evaluator::eval preprocesses one   *)
(* (EvalBegin), then takes trampoline turns, one action per arm of the     *)
(* match, until the value is no Cons (EvalReturn), a handler returns an    *)
(* error, or the process panics.                                           *)
(*   pc: "idle" (eval_file between expressions), "running" (in the while   *)
(*   loop of eval), "returned" (eval has returned outcome), "finished"     *)
(*   and "failed" (eval_file returned Ok or Err), "aborted" (a panic).     *)

(* the formal parameters of the function a call applies *)
FormalsOf(g, function) ==
    LET resolved == resolve(g, function) IN
    IF IsFail(resolved) \/ ~IsListable(resolved) THEN {}
    ELSE LET fc == to_list(resolved) IN
         IF Len(fc) # 3 THEN {} ELSE Range(get_arg_names(fc[2]).names)

(* the entry of eval: p is what preprocess(expr, self) returned *)
EvalEnter(p) ==
    /\ p.r # Diverged
    /\ macros' = p.macros
    /\ globals' = p.g
    /\ stdout' = p.out
    /\ snapshot' = p.g
    /\ IF IsPanic(p.r) THEN pc' = "aborted" /\ outcome' = p.r /\ UNCHANGED value
       ELSE IF IsError(p.r) THEN pc' = "returned" /\ outcome' = p.r /\ UNCHANGED value
       ELSE IF p.r = NoValue THEN pc' = "returned" /\ outcome' = Nil /\ UNCHANGED value
       ELSE pc' = "running" /\ value' = p.r /\ outcome' = NoValue

EvalBegin ==
    /\ pc = "idle"
    /\ exprs # <<>>
    /\ EvalEnter(preprocess(Head(exprs),
                            [macros |-> macros, g |-> globals, out |-> stdout],
                            MaxMacroDepth, overflow_checks))
    /\ last' = "preprocess"
    /\ halt' = NoValue
    /\ called' = {}
    /\ defined' = {}
    /\ UNCHANGED <<exprs, evaluated, overflow_checks, cpsVars, eqVars, replVars, readVars, errVars>>

(* one pass of the while loop of eval; s is what the arm h yielded *)
TurnYields(h, s) ==
    /\ globals' = s.g
    /\ stdout' = stdout \o s.out
    /\ IF IsPanic(s.r) THEN pc' = "aborted" /\ outcome' = s.r /\ UNCHANGED value
       ELSE IF IsError(s.r) THEN pc' = "returned" /\ outcome' = s.r /\ UNCHANGED value
       ELSE value' = s.r /\ UNCHANGED <<pc, outcome>>
    /\ halt' = IF h = "no_continuation" /\ ~IsFail(s.r) THEN s.r ELSE halt
    /\ called' = IF h = "evaluate_lambda_funcall" /\ ~IsFail(s.r)
                 THEN called \cup FormalsOf(globals, value[2]) ELSE called
    /\ defined' = IF h = "define_value" /\ ~IsFail(s.r)
                  THEN defined \cup {name(value[3][3][2])} ELSE defined

Turn(h) ==
    /\ pc = "running"
    /\ IsCons(value)
    /\ Handler(name(value[2])) = h
    /\ TurnYields(h, Dispatch(globals, value, overflow_checks))
    /\ UNCHANGED <<exprs, macros, evaluated, snapshot, overflow_checks, cpsVars, eqVars, replVars, readVars, errVars>>

ValueIsBool ==
    /\ Turn("value_is_bool")
    /\ last' = "value_is_bool"
Car ==
    /\ Turn("car")
    /\ last' = "car"
Cdr ==
    /\ Turn("cdr")
    /\ last' = "cdr"
ConsPair ==
    /\ Turn("cons")
    /\ last' = "cons"
ValueIsCons ==
    /\ Turn("value_is_cons")
    /\ last' = "value_is_cons"
DefineValue ==
    /\ Turn("define_value")
    /\ last' = "define_value"
ValuesAreEqual ==
    /\ Turn("values_are_equal")
    /\ last' = "values_are_equal"
EvalQuoted ==
    /\ Turn("eval_quoted")
    /\ last' = "eval_quoted"
ValueIsFloat ==
    /\ Turn("value_is_float")
    /\ last' = "value_is_float"
IfExpr ==
    /\ Turn("if_expr")
    /\ last' = "if_expr"
ValueIsInt ==
    /\ Turn("value_is_int")
    /\ last' = "value_is_int"
ValueIsName ==
    /\ Turn("value_is_name")
    /\ last' = "value_is_name"
ValueIsNil ==
    /\ Turn("value_is_nil")
    /\ last' = "value_is_nil"
NoContinuation ==
    /\ Turn("no_continuation")
    /\ last' = "no_continuation"
PanicOp ==
    /\ Turn("panic")
    /\ last' = "panic"
PrintValue ==
    /\ Turn("print_value")
    /\ last' = "print_value"
QuoteValue ==
    /\ Turn("quote_value")
    /\ last' = "quote_value"
ValueIsQuote ==
    /\ Turn("value_is_quote")
    /\ last' = "value_is_quote"
ValueIsStr ==
    /\ Turn("value_is_str")
    /\ last' = "value_is_str"
Arithmetic ==
    /\ Turn("arithmetic_expression")
    /\ last' = "arithmetic_expression"
Modulo ==
    /\ Turn("modulo")
    /\ last' = "modulo"
BinaryLogical ==
    /\ Turn("binary_logical_operation")
    /\ last' = "binary_logical_operation"
LogicalNegation ==
    /\ Turn("logical_negation")
    /\ last' = "logical_negation"
Comparison ==
    /\ Turn("comparison")
    /\ last' = "comparison"
LambdaFuncall ==
    /\ Turn("evaluate_lambda_funcall")
    /\ last' = "evaluate_lambda_funcall"

(* the while loop ends: eval returns Ok(value) *)
EvalReturn ==
    /\ pc = "running"
    /\ ~IsCons(value)
    /\ pc' = "returned"
    /\ outcome' = value
    /\ UNCHANGED <<exprs, value, globals, macros, evaluated, stdout, last, halt,
                   snapshot, called, defined, overflow_checks, cpsVars, eqVars, replVars, readVars, errVars>>

(* eval_file: self.eval(expr)? then self.evaluated.push(evaluated) *)
EvalFilePush ==
    /\ pc = "returned"
    /\ exprs # <<>>
    /\ ~IsError(outcome)
    /\ evaluated' = Append(evaluated, outcome)
    /\ exprs' = Tail(exprs)
    /\ pc' = "idle"
    /\ UNCHANGED <<value, globals, macros, stdout, outcome, last, halt,
                   snapshot, called, defined, overflow_checks, cpsVars, eqVars, replVars, readVars, errVars>>

(* A faulty eval_file: it drops the expression that failed and goes on    *)
(* with the next one.                                                      *)
EvalFileSkip ==
    /\ pc = "returned"
    /\ exprs # <<>>
    /\ IsError(outcome)
    /\ exprs' = Tail(exprs)
    /\ pc' = "idle"
    /\ UNCHANGED <<value, globals, macros, evaluated, stdout, outcome, last, halt,
                   snapshot, called, defined, overflow_checks, cpsVars, eqVars, replVars, readVars, errVars>>

(* eval_file: self.eval(expr)? returns the error of eval *)
EvalFileFail ==
    /\ pc = "returned"
    /\ exprs # <<>>
    /\ IsError(outcome)
    /\ pc' = "failed"
    /\ UNCHANGED <<evalVars, overflow_checks, cpsVars, eqVars, replVars, readVars, errVars>>

EvalFileEnd ==
    /\ pc = "idle"
    /\ exprs = <<>>
    /\ pc' = "finished"
    /\ UNCHANGED <<evalVars, overflow_checks, cpsVars, eqVars, replVars, readVars, errVars>>

TrampolineTurn ==
    \/ ValueIsBool \/ Car \/ Cdr \/ ConsPair \/ ValueIsCons \/ DefineValue
    \/ ValuesAreEqual \/ EvalQuoted \/ ValueIsFloat \/ IfExpr \/ ValueIsInt
    \/ ValueIsName \/ ValueIsNil \/ NoContinuation \/ PanicOp \/ PrintValue
    \/ QuoteValue \/ ValueIsQuote \/ ValueIsStr \/ Arithmetic \/ Modulo
    \/ BinaryLogical \/ LogicalNegation \/ Comparison \/ LambdaFuncall

---------------------------------------------------------------------------
(* Source files: what read::read hands to eval_file, one sequence of       *)
(* expressions per file.                                                   *)

MaxInt == 1   \* integer literals 0..MaxInt in the generated calls

List(xs) == cons_list(xs)
Call1(f, a) == List(<<Name(f), a>>)
Call2(f, a, b) == List(<<Name(f), a, b>>)
Call3(f, a, b, c) == List(<<Name(f), a, b, c>>)
Lam(params, body) == List(<<Name("lambda"), List(params), body>>)
Def(n, v) == Call2("def", Name(n), v)
QuoteForm(v) == Call1("quote", v)

SrcOps ==
    {"car", "cdr", "cons", "eval", "equals?", "panic", "print", "println",
     "bool?", "cons?", "float", "float?", "int?", "name?", "nil?", "quote?", "str?",
     "quote", "def", "if",
     "+", "-", "*", "/", "%", "and", "or", "xor", "not",
     "<", ">", "<=", ">=", "==", "!="}

SrcAtoms ==
    {Integer(i) : i \in 0..MaxInt}
        \cup {Bool(TRUE), Float(<<1, 2>>), String("s"), Nil, Name("x"), Name("y")}

(* (def x '(1 2)) then one call of an operator on one or two atoms *)
GeneratedPrograms ==
    LET prefix == Def("x", QuoteForm(List(<<Integer(1), Integer(2)>>))) IN
    {<<prefix, Call1(op, a)>> : op \in SrcOps, a \in SrcAtoms}
        \cup {<<prefix, Call2(op, a[1], a[2])>> : op \in SrcOps, a \in SrcAtoms \X SrcAtoms}

Identity == Lam(<<Name("x")>>, Name("x"))

Factorial ==
    Lam(<<Name("n")>>,
        Call3("if", Call2("==", Name("n"), Integer(0)),
              Integer(1),
              Call2("*", Name("n"), Call1("f", Call2("-", Name("n"), Integer(1))))))

WrittenPrograms ==
    { <<Def("x", Integer(7)), Call2("+", Name("x"), Integer(3)), Name("x")>>,
      <<Def("f", Factorial), Call1("f", Integer(2))>>,
      <<Def("f", Identity), Name("f")>>,
      <<Def("x", Integer(7)), Def("f", Identity), Call1("f", Integer(1)), Name("x")>>,
      <<Def("x", Integer(7)), Def("g", Identity),
        Def("f", Lam(<<Name("x")>>, Call1("g", Call2("+", Name("x"), Integer(1))))),
        Call1("f", Integer(1)), Name("x")>>,
      <<Def("x", Integer(7)),
        Def("f", Lam(<<Name("x"), Name("y")>>, Def("y", Name("x")))),
        Call2("f", Integer(1), Integer(2)), Name("y")>>,
      <<Def("f", Lam(<<>>, Integer(1))), List(<<Name("f")>>)>>,
      <<Call2("defmacro", List(<<Name("m"), Name("a")>>), Name("a")),
        Call2("defmacro", List(<<Name("m"), Name("a")>>), Integer(1))>>,
      <<Call2("defmacro", List(<<Name("m"), Name("a")>>), Name("a")),
        Call1("m", Integer(5))>>,
      <<Call2("defmacro", List(<<Name("m")>>), List(<<Name("m")>>)),
        List(<<Name("m")>>)>>,
      <<Call1("println", Call3("if", Bool(TRUE), Integer(1), Integer(2)))>>,
      <<Call2("+", Call1("print", Integer(0)), Call1("print", Integer(1)))>>,
      <<Call1("print", Call2("+", Call1("print", Integer(0)), Call1("print", Integer(1))))>>,
      <<Call2("+", Call1("print", Call1("print", Integer(0))),
                   Call2("+", Call1("print", Integer(1)), Call1("print", Integer(2))))>>,
      <<Call2("+", Call1("print", Integer(0)),
                   Call3("if", Bool(FALSE), Call1("print", Integer(1)),
                                            Call1("print", Integer(2))))>>,
      <<Call3("if", Bool(FALSE), Integer(1), Integer(2))>>,
      <<Call1("eval", QuoteForm(Call2("+", Integer(1), Integer(2))))>>,
      <<Call1("print", Call1("eval", QuoteForm(Call2("+", Integer(1), Integer(2)))))>>,
      <<QuoteForm(List(<<Name("a"), Call1("unquote", Call2("+", Integer(1), Integer(2)))>>))>>,
      <<QuoteForm(Call1("unquote", Integer(1)))>>,
      <<Integer(1), String("s")>>,
      <<Def("x", Integer(7)), Call1("print", Name("y")), Call1("print", Name("x")),
        Def("y", Integer(1))>>,
      <<Call1("print", Call2("defmacro", List(<<Name("m"), Name("a")>>), Name("a"))),
        Call1("m", Integer(5))>>,
      <<Def("x", Integer(7)), Call1("name?", Name("x")), Call1("int?", Name("x")),
        Call1("name?", Name("y"))>>,
      <<Def("f", Lam(<<Name("x")>>, QuoteForm(List(<<Name("x"), Name("y")>>)))),
        Call1("f", Integer(1))>>,
      <<Def("y", Integer(1)), Def("x", Name("y")), Call2("+", Name("x"), Integer(1))>>,
      <<>> }

Programs == GeneratedPrograms \cup WrittenPrograms

(* Evaluator::new, and a file read *)
InitEval ==
    /\ value = Nil
    /\ globals = EmptyMap
    /\ macros = EmptyMap
    /\ evaluated = <<>>
    /\ stdout = <<>>
    /\ outcome = NoValue
    /\ last = "new"
    /\ halt = NoValue
    /\ snapshot = EmptyMap
    /\ called = {}
    /\ defined = {}

IdleCps == src = Nil /\ cps = NoValue /\ cps2 = NoValue
IdleEq  == eqargs = <<>> /\ eqres = <<>>
IdleRepl == stderr = <<>> /\ iteration = 0
IdleRead == source = <<>> /\ read_result = NoValue /\ balanced = NoValue
IdleErr  == error = NoValue /\ displayed = NoValue

Init ==
    /\ pc = "idle"
    /\ exprs \in Programs
    /\ overflow_checks \in BOOLEAN
    /\ InitEval
    /\ IdleCps
    /\ IdleEq
    /\ IdleRepl
    /\ IdleRead
    /\ IdleErr

Next ==
    \/ EvalBegin
    \/ TrampolineTurn
    \/ EvalReturn
    \/ EvalFilePush
    \/ EvalFileFail
    \/ EvalFileEnd

Spec == Init /\ [][Next]_vars

---------------------------------------------------------------------------
(* The converter alone: convert_expr applied to a formatted source         *)
(* expression, and applied again to its own output.                        *)

CpsAtoms == {Integer(i) : i \in 0..MaxInt} \cup {Name("x")}
CpsHeads == {"f", "g"}

FlatCalls ==
    {Call1(h, a) : h \in CpsHeads, a \in CpsAtoms}
        \cup {Call2(h, a[1], a[2]) : h \in CpsHeads, a \in CpsAtoms \X CpsAtoms}

FlatIfs == {Call3("if", Name("x"), a[1], a[2]) : a \in CpsAtoms \X CpsAtoms}

FlatLambdas ==
    {Lam(<<Name("x")>>, b) : b \in CpsAtoms \cup FlatCalls}
        \cup {Lam(<<>>, b) : b \in CpsAtoms \cup FlatCalls}
        \cup {Lam(<<Name("x"), Name("y")>>, b) : b \in CpsAtoms}

FlatQuotes ==
    {QuoteForm(a) : a \in CpsAtoms}
        \cup {QuoteForm(List(<<Name("a"), Call1("unquote", e)>>)) : e \in CpsAtoms \cup FlatCalls}
        \cup {QuoteForm(Call1("unquote", a)) : a \in CpsAtoms}

Flat == FlatCalls \cup FlatIfs \cup FlatLambdas \cup FlatQuotes

Nested ==
    {Call1(h, e) : h \in CpsHeads, e \in Flat}
        \cup {Call2("f", e, a) : e \in Flat, a \in CpsAtoms}
        \cup {Call2("g", Call1("f", Name("x")), e) : e \in Flat}
        \cup {Call3("if", e, Integer(0), Name("x")) : e \in Flat}
        \cup {Call3("if", Name("x"), e, Integer(0)) : e \in Flat}
        \cup {Call3("if", Name("x"), Integer(0), e) : e \in Flat}
        \cup {Lam(<<Name("x")>>, e) : e \in Flat}
        \cup {List(<<e, Name("x")>>) : e \in FlatCalls \cup FlatLambdas}
        \cup {Call1("f", Call1("g", e)) : e \in FlatCalls \cup FlatIfs}
        \cup {Lam(<<Name("x")>>, Call1("f", e)) : e \in FlatCalls}

SourceExprs == CpsAtoms \cup Flat \cup Nested

InitCps ==
    /\ pc = "source"
    /\ src \in {format_names(e) : e \in SourceExprs}
    /\ cps = NoValue
    /\ cps2 = NoValue
    /\ overflow_checks \in BOOLEAN
    /\ exprs = <<>>
    /\ InitEval
    /\ IdleEq
    /\ IdleRepl
    /\ IdleRead
    /\ IdleErr

(* cps::convert_expr(&formatted) *)
Convert ==
    /\ pc = "source"
    /\ cps' = convert_expr(src, overflow_checks)
    /\ pc' = "converted"
    /\ UNCHANGED <<src, cps2, evalVars, overflow_checks, eqVars, replVars, readVars, errVars>>

(* convert_expr applied to a tree it produced *)
Reconvert ==
    /\ pc = "converted"
    /\ ~IsFail(cps)
    /\ cps2' = convert_expr(cps, overflow_checks)
    /\ pc' = "reconverted"
    /\ UNCHANGED <<src, cps, evalVars, overflow_checks, eqVars, replVars, readVars, errVars>>

NextCps == Convert \/ Reconvert

SpecCps == InitCps /\ [][NextCps]_vars

---------------------------------------------------------------------------
(* &equals? alone: three values bound to the globals &a, &b and &c, and    *)
(* values_are_equal applied to every pair of them.                         *)

EqAtoms ==
    {Nil, Bool(TRUE), Bool(FALSE), String("s"), String("t"), Name("&x"), Name("&y")}
        \cup {Integer(i) : i \in 0..MaxInt}

EqValues ==
    EqAtoms \cup {Quote(a) : a \in EqAtoms} \cup {Cons(a, Nil) : a \in EqAtoms}

EqNames == <<"&a", "&b", "&c">>

InitEq ==
    /\ pc = "values"
    /\ eqargs \in EqValues \X EqValues \X EqValues
    /\ eqres = <<>>
    /\ overflow_checks = TRUE
    /\ exprs = <<>>
    /\ InitEval
    /\ IdleCps
    /\ IdleRepl
    /\ IdleRead
    /\ IdleErr

(* (&equals? k x y) with x and y names of the globals; the Bool handed to k *)
EqualsResult(g, x, y) ==
    to_list(values_are_equal(g, <<Name("no-continuation"), Name(x), Name(y)>>))[2][2]

CompareValues ==
    /\ pc = "values"
    /\ globals' = [n \in Range(EqNames) |->
                      eqargs[CHOOSE i \in 1..3 : EqNames[i] = n]]
    /\ eqres' = [i \in 1..3 |-> [j \in 1..3 |->
                      EqualsResult(globals', EqNames[i], EqNames[j])]]
    /\ pc' = "compared"
    /\ UNCHANGED <<exprs, value, macros, evaluated, stdout, outcome, last, halt,
                   snapshot, called, defined, overflow_checks, cpsVars, eqargs,
                   replVars, readVars, errVars>>

NextEq == CompareValues

SpecEq == InitEq /\ [][NextEq]_vars

---------------------------------------------------------------------------
(* &cons, &car and &cdr alone: a pair built by cons from two operands, car *)
(* and cdr applied to it, and what they yield compared with the operands   *)
(* by values_are_equal.                                                    *)

(* the operands of &cons: literals, Nil, and Quote-wrapped values *)
PairLiterals == {Nil, Bool(TRUE), String("s")} \cup {Integer(i) : i \in 0..MaxInt}

PairOperands ==
    PairLiterals
        \cup {Quote(v) : v \in PairLiterals}
        \cup {Quote(Name("&x")), Quote(Cons(Integer(1), Nil)), Quote(Quote(Name("&x")))}

(* the value a built-in hands to its continuation: r is (k v) *)
Handed(r) == to_list(r)[2]

InitPair ==
    /\ pc = "operands"
    /\ eqargs \in PairOperands \X PairOperands
    /\ eqres = <<>>
    /\ overflow_checks = TRUE
    /\ exprs = <<>>
    /\ InitEval
    /\ IdleCps
    /\ IdleRepl
    /\ IdleRead
    /\ IdleErr

(* (&cons k a b) *)
ConsOperands ==
    /\ pc = "operands"
    /\ eqres' = <<Handed(cons(globals, <<Name("no-continuation"), eqargs[1], eqargs[2]>>))>>
    /\ pc' = "pair"
    /\ UNCHANGED <<evalVars, overflow_checks, cpsVars, eqargs, replVars, readVars, errVars>>

(* (&car k pair) and (&cdr k pair) *)
SelectBoth ==
    /\ pc = "pair"
    /\ eqres' = eqres \o <<Handed(car(globals, <<Name("no-continuation"), eqres[1]>>)),
                           Handed(cdr(globals, <<Name("no-continuation"), eqres[1]>>))>>
    /\ pc' = "selected"
    /\ UNCHANGED <<evalVars, overflow_checks, cpsVars, eqargs, replVars, readVars, errVars>>

(* (&equals? k car a) and (&equals? k cdr b) *)
CompareSelected ==
    /\ pc = "selected"
    /\ eqres' = eqres \o
         <<Handed(values_are_equal(globals, <<Name("no-continuation"), eqres[2], eqargs[1]>>)),
           Handed(values_are_equal(globals, <<Name("no-continuation"), eqres[3], eqargs[2]>>))>>
    /\ pc' = "compared"
    /\ UNCHANGED <<evalVars, overflow_checks, cpsVars, eqargs, replVars, readVars, errVars>>

NextPair == ConsOperands \/ SelectBoth \/ CompareSelected

SpecPair == InitPair /\ [][NextPair]_vars

---------------------------------------------------------------------------
(* macros.rs: the expander of the parked module, driven one top-level      *)
(* expression at a time.  Its Evaluator (get_macros, get_env, eval,        *)
(* parse_lambdas) is not among the sources: the macro table and the        *)
(* environment are the maps macros and globals, and the evaluation of the  *)
(* call of a macro's function follows section 4.2 of the specification.    *)

Finite(xs) == <<"Finite", xs>>
Variadic(arg_names, named_args_count, variadic_name) ==
    <<"Variadic", arg_names, named_args_count, variadic_name>>
MacroRecord(nm, args, fn) == <<"Macro", nm, args, fn>>
Lambda(args, body) == <<"Lambda", args, body>>

Remove(map, k) == [n \in DOMAIN map \ {k} |-> map[n]]

(* index of the first argument that is the name @ or is not a name, 0 if none *)
FirstSpecial(arg_components) ==
    LET special == {i \in DOMAIN arg_components :
                        arg_components[i][1] # "Name" \/ arg_components[i][2] = "@"}
    IN IF special = {} THEN 0 ELSE CHOOSE i \in special : \A j \in special : i <= j

parse_macro_args(macro_name, arg_components) ==
    LET i == FirstSpecial(arg_components) IN
    IF i = 0 THEN Finite(cons_list(arg_components))
    ELSE IF arg_components[i][1] # "Name"
    THEN Error("in '" \o macro_name \o "' macro definition: expected name in macro argument")
    ELSE IF i + 1 # Len(arg_components)
    THEN Error("macros with variadic parameters can only have one vararg")
    ELSE IF arg_components[i + 1][1] = "Name"
    THEN Variadic(cons_list(SubSeq(arg_components, 1, i)), i, arg_components[i + 1])
    ELSE Error("Expected name for vararg")

macro_as_function(macro_args, body_component) ==
    cons_list(<<Name("lambda"), macro_args[2], body_component>>)

(* Evaluator::parse_lambdas: the lambda list becomes a function value *)
parse_lambdas(v) == Lambda(to_list(v)[2], to_list(v)[3])

(* Macro::parse_macro_definition: NoValue for Ok(None) *)
Macro_parse_macro_definition(expr) ==
    IF ~IsListable(expr) THEN NoValue
    ELSE LET components == to_list(expr) IN
    IF components = <<>> \/ name(components[1]) # "defmacro" THEN NoValue
    ELSE IF Len(components) # 3
    THEN Error("expected syntax (defmacro <macro-signature> <macro-body>")
    ELSE IF ~IsListable(components[2])
    THEN Error("expected the macro signature to be a list (<name> <args>..)")
    ELSE LET signature_components == to_list(components[2]) IN
    IF signature_components = <<>>
    THEN Error("A macro definition cannot have an empty signature")
    ELSE IF signature_components[1][1] # "Name"
    THEN Error("expected name in macro definition")
    ELSE LET macro_args == parse_macro_args(signature_components[1][2],
                                            Tail(signature_components)) IN
    IF IsError(macro_args) THEN macro_args
    ELSE MacroRecord(signature_components[1][2], macro_args,
                     parse_lambdas(macro_as_function(macro_args, components[3])))

Quoted(arg) == cons_list(<<Name("quote"), arg>>)

(* Macro::generate_quoted_args: [err, args], err NoValue for Ok(args) *)
generate_quoted_args(self, supplied_args) ==
    IF self[3][1] = "Finite"
    THEN [err |-> NoValue,
          args |-> [i \in DOMAIN supplied_args |-> Quoted(supplied_args[i])]]
    ELSE LET named_args_count == self[3][3] IN
         IF named_args_count > Len(supplied_args)
         THEN [err |-> Error("macro '" \o self[2] \o "' invoked with too few arguments"),
               args |-> <<>>]
         ELSE [err |-> NoValue,
               args |-> [i \in 1..(named_args_count - 1) |-> Quoted(supplied_args[i])]
                  \o <<cons_list(<<Name("list")>> \o
                        [i \in 1..(Len(supplied_args) - named_args_count + 1) |->
                            Quoted(supplied_args[named_args_count - 1 + i])])>>]

(* the syntactic value an argument of the executable expression stands for *)
Supplied(quoted_arg) ==
    LET parts == to_list(quoted_arg) IN
    IF name(parts[1]) = "quote" THEN parts[2]
    ELSE cons_list([i \in 1..(Len(parts) - 1) |-> to_list(parts[i + 1])[2]])

(* Evaluator::eval of (name 'v1 .. 'vn), name bound in env to the macro's   *)
(* function: the function's body evaluated with its parameters bound to     *)
(* the supplied syntax.  The bodies of the macros expanded here are a name  *)
(* (a parameter, a global or unbound), a quoted template or a literal.      *)
evaluator_eval(env, executable_expr) ==
    LET components == to_list(executable_expr)
        function   == env[name(components[1])]
        params     == to_list(function[2])
        body       == function[3]
        args       == Tail(components)
    IN  IF Len(params) # Len(args)
        THEN Error("Function takes " \o ToString(Len(params))
                       \o " arguments but received " \o ToString(Len(args)))
        ELSE CASE body[1] = "Name" ->
                    IF \E i \in DOMAIN params : params[i] = body
                    THEN Supplied(args[LastIndex([i \in DOMAIN params |-> params[i][2]], body[2])])
                    ELSE resolve(env, body)
               [] IsCons(body) /\ name(body[2]) = "quote" -> to_list(body)[2]
               [] OTHER -> body

(* Macro::expand_macro; st is [macros, env], the result [r, macros, env] *)
expand_macro(self, components, st) ==
    LET without_self == Remove(st.macros, self[2])
        with_function == Insert(st.env, self[2], self[4])
        quoted_args == generate_quoted_args(self, Tail(components))
    IN  IF quoted_args.err # NoValue
        THEN [r |-> quoted_args.err, macros |-> without_self, env |-> with_function]
        ELSE LET evaluation_result ==
                     evaluator_eval(with_function,
                                    Cons(Name(self[2]), cons_list(quoted_args.args)))
             IN  IF IsError(evaluation_result)
                 THEN [r |-> evaluation_result, macros |-> without_self,
                       env |-> with_function]
                 ELSE [r |-> evaluation_result,
                       macros |-> Insert(without_self, self[2], self),
                       env |-> Remove(with_function, self[2])]

RECURSIVE recursively_expand_macros(_, _)
RECURSIVE ExpandEach(_, _, _)

(* the loop over the components: acc is [r, macros, env], r the new_components *)
ExpandEach(components, i, acc) ==
    IF i > Len(components) THEN [acc EXCEPT !.r = cons_list(acc.r)]
    ELSE LET e == recursively_expand_macros(components[i],
                                            [macros |-> acc.macros, env |-> acc.env])
         IN  IF IsError(e.r) THEN e
             ELSE ExpandEach(components, i + 1,
                             [e EXCEPT !.r = Append(acc.r, e.r)])

InstallParsed(new_macro, st) ==
    IF IsError(new_macro)
    THEN [r |-> new_macro, macros |-> st.macros, env |-> st.env]
    ELSE [r |-> IF new_macro[2] \in DOMAIN st.macros
                THEN Error("macro '" \o new_macro[2] \o "' has already been defined")
                ELSE Nil,
          macros |-> Insert(st.macros, new_macro[2], new_macro),
          env |-> st.env]

recursively_expand_macros(expr, st) ==
    IF Macro_parse_macro_definition(expr) # NoValue
    THEN InstallParsed(Macro_parse_macro_definition(expr), st)
    ELSE IF ~IsListable(expr) \/ to_list(expr) = <<>>
    THEN [r |-> expr, macros |-> st.macros, env |-> st.env]
    ELSE IF name(to_list(expr)[1]) \in DOMAIN st.macros
    THEN expand_macro(st.macros[name(to_list(expr)[1])], to_list(expr), st)
    ELSE ExpandEach(to_list(expr), 1, [r |-> <<>>, macros |-> st.macros, env |-> st.env])

Expanded(e) ==
    /\ macros' = e.macros
    /\ globals' = e.env
    /\ outcome' = e.r

(* one top-level expression handed to recursively_expand_macros *)
ExpandMacros ==
    /\ pc = "expanding"
    /\ exprs # <<>>
    /\ Expanded(recursively_expand_macros(Head(exprs),
                                          [macros |-> macros, env |-> globals]))
    /\ value' = Head(exprs)
    /\ exprs' = Tail(exprs)
    /\ snapshot' = globals
    /\ last' = "recursively_expand_macros"
    /\ UNCHANGED <<pc, evaluated, stdout, halt, called, defined, overflow_checks,
                   cpsVars, eqVars, replVars, readVars, errVars>>

MacroIdentity == Call2("defmacro", List(<<Name("m"), Name("a")>>), Name("a"))
MacroTemplate == Call2("defmacro", List(<<Name("n")>>),
                       QuoteForm(Call1("m", Integer(1))))
MacroUnbound  == Call2("defmacro", List(<<Name("g"), Name("a")>>), Name("y"))
MacroVariadic == Call2("defmacro", List(<<Name("f"), Name("@"), Name("a")>>),
                       Name("a"))

MacroExprs ==
    { MacroIdentity, MacroTemplate, MacroUnbound, MacroVariadic,
      Call1("m", Integer(1)),
      List(<<Name("n")>>),
      Call1("g", Integer(1)),
      Call1("m", List(<<Name("n")>>)),
      Call2("f", Integer(0), Integer(1)),
      Call1("print", List(<<Name("n")>>)),
      Call1("print", MacroIdentity) }

MaxMacroExprs == 3   \* top-level expressions handed to the expander

MacroPrograms ==
    UNION {[1..k -> MacroExprs] : k \in 1..MaxMacroExprs}

(* the environments the expander starts from: the empty one, and those    *)
(* an earlier (def m 7) or (def y 7) has left                              *)
MacroEnvs ==
    {EmptyMap, Insert(EmptyMap, "m", Integer(7)), Insert(EmptyMap, "y", Integer(7))}

InitMacro ==
    /\ pc = "expanding"
    /\ exprs \in MacroPrograms
    /\ overflow_checks = TRUE
    /\ value = Nil
    /\ globals \in MacroEnvs
    /\ macros = EmptyMap
    /\ evaluated = <<>>
    /\ stdout = <<>>
    /\ outcome = NoValue
    /\ last = "new"
    /\ halt = NoValue
    /\ snapshot = globals
    /\ called = {}
    /\ defined = {}
    /\ IdleCps
    /\ IdleEq
    /\ IdleRepl
    /\ IdleRead
    /\ IdleErr

NextMacro == ExpandMacros

SpecMacro == InitMacro /\ [][NextMacro]_vars

---------------------------------------------------------------------------
(* repl.rs: run_repl makes one Evaluator and loops over repl_iteration.    *)
(* An iteration reads lines until the brackets balance, reads the text     *)
(* into expressions and hands the single expression to Evaluator::eval,    *)
(* whose steps are EvalBegin, the trampoline turns and EvalReturn above.   *)
(*   pc: "prompt" (run_repl at the head of its loop), then the positions   *)
(*   of eval; "returned" is repl_iteration returning to the match of       *)
(*   run_repl.                                                             *)

MaxIterations == 3   \* iterations of the loop of run_repl

Pair == QuoteForm(List(<<Integer(1), Integer(2)>>))

(* what the lines typed at one prompt come to: the text exit, an error of  *)
(* get_line_from_stdin, brackets_are_balanced or read, or the expressions  *)
(* read from the text                                                      *)
ReplExit == <<"exit">>
ReplRead(xs) == <<"read", xs>>

ReplInputs ==
    { ReplExit,
      Error("input string has more closing braces than opening braces"),
      ReplRead(<<>>),
      ReplRead(<<Integer(1), Integer(2)>>) }
    \cup { ReplRead(<<e>>) : e \in
      { Def("x", Integer(7)),
        Name("x"),
        Call1("print", Name("y")),
        Call1("panic", String("s")),
        Call2("defmacro", List(<<Name("m"), Name("a")>>), Name("a")),
        Call1("m", Integer(5)),
        Call3("if", Bool(TRUE), Integer(1), Integer(2)),
        Call1("eval", Integer(1)),
        Call1("print", Call2("cons", Call1("car", Pair), Call1("cdr", Pair))),
        Call2("and", Call1("bool?", Bool(TRUE)), Call1("not", Call1("cons?", Integer(1)))),
        Call2("equals?", Call1("int?", Integer(1)), Call1("float", Integer(1))),
        Call2("or", Call1("name?", Integer(1)), Call1("nil?", Integer(1))),
        Call2("or", Call1("quote?", Integer(1)), Call1("str?", Integer(1))),
        Call2("<", Call2("+", Integer(1), Integer(1)), Call2("%", Integer(1), Integer(1))) } }

(* repl_iteration up to its call of eval *)
ReplLine ==
    /\ pc = "prompt"
    /\ iteration < MaxIterations
    /\ iteration' = iteration + 1
    /\ \E input \in ReplInputs :
          IF input = ReplExit
          THEN pc' = "aborted" /\ outcome' = Panic("cya") /\ UNCHANGED exprs
          ELSE IF IsError(input)
          THEN pc' = "returned" /\ outcome' = input /\ UNCHANGED exprs
          ELSE IF Len(input[2]) # 1
          THEN /\ pc' = "returned"
               /\ outcome' = Error("REPL can only evaluate 1 expression at a time")
               /\ UNCHANGED exprs
          ELSE pc' = "idle" /\ exprs' = input[2] /\ UNCHANGED outcome
    /\ UNCHANGED <<value, globals, macros, evaluated, stdout, last, halt, snapshot,
                   called, defined, stderr, overflow_checks, cpsVars, eqVars, readVars, errVars>>

(* run_repl: Ok(v) => println!("{}", v) *)
ReplPrintValue ==
    /\ pc = "returned"
    /\ ~IsError(outcome)
    /\ stdout' = Append(stdout, <<outcome, TRUE>>)
    /\ exprs' = <<>>
    /\ pc' = "prompt"
    /\ UNCHANGED <<value, globals, macros, evaluated, outcome, last, halt, snapshot,
                   called, defined, replVars, overflow_checks, cpsVars, eqVars, readVars, errVars>>

(* A faulty run_repl: after an error it goes on with a new Evaluator. *)
ReplErrorReset ==
    /\ pc = "returned"
    /\ IsError(outcome)
    /\ stderr' = Append(stderr, outcome)
    /\ globals' = EmptyMap
    /\ macros' = EmptyMap
    /\ exprs' = <<>>
    /\ pc' = "prompt"
    /\ UNCHANGED <<value, evaluated, stdout, outcome, last, halt, snapshot,
                   called, defined, iteration, overflow_checks, cpsVars, eqVars, readVars, errVars>>

(* run_repl: Err(e) => eprintln!("{}", e.display(false)) *)
ReplPrintError ==
    /\ pc = "returned"
    /\ IsError(outcome)
    /\ stderr' = Append(stderr, outcome)
    /\ exprs' = <<>>
    /\ pc' = "prompt"
    /\ UNCHANGED <<value, globals, macros, evaluated, stdout, outcome, last, halt,
                   snapshot, called, defined, iteration, overflow_checks, cpsVars,
                   eqVars, readVars, errVars>>

InitRepl ==
    /\ pc = "prompt"
    /\ exprs = <<>>
    /\ overflow_checks \in BOOLEAN
    /\ InitEval
    /\ IdleCps
    /\ IdleEq
    /\ IdleRepl
    /\ IdleRead
    /\ IdleErr

NextRepl ==
    \/ ReplLine
    \/ EvalBegin
    \/ TrampolineTurn
    \/ EvalReturn
    \/ ReplPrintValue
    \/ ReplPrintError

SpecRepl == InitRepl /\ [][NextRepl]_vars

---------------------------------------------------------------------------
(* read.rs: the reader.  A source text is a sequence of characters; the    *)
(* matches of REGEX are the lexemes, each the sequence of its characters;  *)
(* read_nested_lists folds them into a ValueStack and read turns the       *)
(* ValueStack into values.  error! and expect are panics.                  *)

Digits == {"0", "1"}
NameStart == {"a", "b"}
Opening == {"(", "[", "{"}
Closing == {")", "]", "}"}

(* the last index of the run of characters of cls that starts at i; i - 1  *)
(* if there is none                                                        *)
RunEnd(s, i, cls) ==
    LET ends == {j \in (i - 1)..Len(s) : \A k \in i..j : s[k] \in cls}
    IN  CHOOSE j \in ends : \A k \in ends : k <= j

(* the index of the first quote character after i on the same line, 0 if  *)
(* there is none                                                           *)
NextQuote(s, i) ==
    LET later == {j \in (i + 1)..Len(s) :
                    s[j] = "'" /\ \A k \in (i + 1)..(j - 1) : s[k] # "\n"}
    IN  IF later = {} THEN 0 ELSE CHOOSE j \in later : \A k \in later : j <= k

(* REGEX.find_iter(&source): an integer [0-9][0-9_]*, a name, the text     *)
(* '.*?' between a quote character and the next one, a bracket; a          *)
(* character no alternative matches (a space, a quote character that no    *)
(* other follows) is passed over.  The characters of the texts read here   *)
(* are digits, letters, brackets, the quote character and the space.       *)
RECURSIVE find_iter(_, _)
find_iter(s, i) ==
    IF i > Len(s) THEN <<>>
    ELSE CASE s[i] \in Digits ->
                <<SubSeq(s, i, RunEnd(s, i + 1, Digits \cup {"_"}))>>
                    \o find_iter(s, RunEnd(s, i + 1, Digits \cup {"_"}) + 1)
           [] s[i] \in NameStart ->
                <<SubSeq(s, i, RunEnd(s, i + 1, NameStart \cup Digits \cup {"_"}))>>
                    \o find_iter(s, RunEnd(s, i + 1, NameStart \cup Digits \cup {"_"}) + 1)
           [] s[i] = "'" /\ NextQuote(s, i) # 0 ->
                <<SubSeq(s, i, NextQuote(s, i))>> \o find_iter(s, NextQuote(s, i) + 1)
           [] s[i] \in Opening \cup Closing -> <<<<s[i]>>>> \o find_iter(s, i + 1)
           [] OTHER -> find_iter(s, i + 1)

RECURSIVE Join(_)
Join(chars) == IF chars = <<>> THEN "" ELSE Head(chars) \o Join(Tail(chars))

(* rug::Integer::parse of a lexeme of decimal digits *)
RECURSIVE ParseInt(_)
ParseInt(chars) ==
    IF chars = <<>> THEN 0
    ELSE LET d == chars[Len(chars)]
             rest == ParseInt(SubSeq(chars, 1, Len(chars) - 1))
         IN  IF d = "_" THEN rest ELSE 10 * rest + (IF d = "1" THEN 1 ELSE 0)

Atom(v) == <<"Atom", v>>
ValueStackList(vals, delim) == <<"List", vals, delim>>

read_atom(string) ==
    Atom(CASE string[1] \in Digits -> Integer(ParseInt(string))
           [] Join(string) \in {"true", "false"} -> Bool(Join(string) = "true")
           [] string[1] = "\"" -> String(Join(string))
           [] Join(string) \in {"nil", "null"} -> Nil
           [] OTHER -> Name(Join(string)))

Expected(ldelim) ==
    CASE ldelim = "(" -> ")"
      [] ldelim = "[" -> "]"
      [] OTHER -> "}"

(* vals.push_back(item) on the List at the back of the stack *)
PushBack(stack, item) ==
    [stack EXCEPT ![Len(stack)] =
        ValueStackList(Append(stack[Len(stack)][2], item), stack[Len(stack)][3])]

(* one pass of the loop of read_nested_lists on the lexeme expr_str *)
ReadLexeme(stack, expr_str) ==
    LET first_char == expr_str[1] IN
    CASE first_char \in Opening -> Append(stack, ValueStackList(<<>>, first_char))
      [] first_char \in Closing ->
            LET popped == stack[Len(stack)]
                rest == SubSeq(stack, 1, Len(stack) - 1)
            IN  IF first_char # Expected(popped[3])
                THEN IF rest = <<>>
                     THEN Panic("syntax error: unexpected closing bracket")
                     ELSE Panic("syntax error: expected expr to be closed with another bracket")
                ELSE IF rest = <<>>
                THEN Panic("internal error in read_nested_lists() :: 2")
                ELSE PushBack(rest, popped)
      [] OTHER -> PushBack(stack, read_atom(expr_str))

RECURSIVE ReadLexemes(_, _)
ReadLexemes(stack, lexemes) ==
    IF lexemes = <<>> THEN stack
    ELSE IF IsPanic(ReadLexeme(stack, Head(lexemes)))
    THEN ReadLexeme(stack, Head(lexemes))
    ELSE ReadLexemes(ReadLexeme(stack, Head(lexemes)), Tail(lexemes))

(* the ValueStack at the front of the stack when the text is used up *)
read_nested_lists(s) ==
    LET stack == ReadLexemes(<<ValueStackList(<<>>, "?")>>, find_iter(s, 1))
    IN  IF IsPanic(stack) THEN stack ELSE stack[1]

RECURSIVE rec_read(_)
rec_read(stack) ==
    IF stack[1] = "Atom" THEN stack[2]
    ELSE cons_list([i \in DOMAIN stack[2] |-> rec_read(stack[2][i])])

(* read: [err, values], err the panic that ended it or NoValue *)
read(s) ==
    LET values == read_nested_lists(s)
    IN  IF IsPanic(values) THEN [err |-> values, values |-> <<>>]
        ELSE [err |-> NoValue,
              values |-> [i \in DOMAIN values[2] |-> rec_read(values[2][i])]]

(* value.rs: impl Display for Value.  The text written is the              *)
(* concatenation of the pieces of Display(v); a piece is " ", " . " or a   *)
(* piece that holds no space.  format!("{}", i) of an Integer is its       *)
(* decimal numeral.  No text read here yields a Float.                     *)
RECURSIVE Decimal(_)
Decimal(i) ==
    LET digit == <<"0", "1", "2", "3", "4", "5", "6", "7", "8", "9">>
    IN  IF i < 0 THEN "-" \o Decimal(0 - i)
        ELSE IF i < 10 THEN digit[i + 1]
        ELSE Decimal(i \div 10) \o digit[(i % 10) + 1]

RECURSIVE Display(_)
RECURSIVE print_list(_)
print_list(xs) ==
    IF IsCons(xs) THEN <<" ">> \o Display(xs[2]) \o print_list(xs[3])
    ELSE IF xs = Nil THEN <<>>
    ELSE <<" . ">> \o Display(xs)

Display(v) ==
    CASE v[1] = "Name" -> <<v[2]>>
      [] v[1] = "Integer" -> <<Decimal(v[2])>>
      [] v[1] = "String" -> <<v[2]>>
      [] v[1] = "Bool" -> <<IF v[2] THEN "true" ELSE "false">>
      [] v[1] = "Cons" -> <<"(">> \o print_list(v) \o <<")">>
      [] v[1] = "Quote" -> <<"'">> \o Display(v[2])
      [] v[1] = "Nil" -> <<"nil">>

MaxChars == 4   \* characters of a source text

SourceChars == {"(", ")", "[", "]", "{", "}", "a", "1", " ", "'"}

Sources == UNION {[1..n -> SourceChars] : n \in 0..MaxChars}

InitRead ==
    /\ pc = "text"
    /\ source \in Sources
    /\ read_result = NoValue
    /\ balanced = NoValue
    /\ overflow_checks = TRUE
    /\ exprs = <<>>
    /\ InitEval
    /\ IdleCps
    /\ IdleEq
    /\ IdleRepl
    /\ IdleErr

ReadSource ==
    /\ pc = "text"
    /\ read_result' = read(source)
    /\ pc' = "read"
    /\ UNCHANGED <<source, balanced, evalVars, overflow_checks, cpsVars, eqVars,
                   replVars, errVars>>

NextRead == ReadSource

SpecRead == InitRead /\ [][NextRead]_vars

---------------------------------------------------------------------------
(* repl.rs: repl_iteration gathering its input.  Lines are read from stdin *)
(* until brackets_are_balanced says Ok(true) for the text gathered, which  *)
(* is then handed to the reader.  read_line yields a line with its newline *)
(* or, at the end of the input, nothing.                                   *)

MaxInput == 6   \* characters of the text gathered

(* brackets_are_balanced: Bool(b) for Ok(b) *)
RECURSIVE bracket_depth(_)
bracket_depth(string) ==
    IF string = <<>> THEN 0
    ELSE LET c == string[Len(string)]
             before == bracket_depth(SubSeq(string, 1, Len(string) - 1))
         IN  CASE c \in Opening -> before + 1
               [] c \in Closing -> before - 1
               [] OTHER -> before

brackets_are_balanced(string) ==
    IF bracket_depth(string) < 0
    THEN Error("input string has more closing braces than opening braces")
    ELSE Bool(bracket_depth(string) = 0)

IsOkTrue(r) == r[1] = "Bool" /\ r[2]   \* r is Ok(true)

LineChars == {"(", ")", "]", "a"}

Lines ==
    {<<>>} \cup {l \o <<"\n">> : l \in UNION {[1..n -> LineChars] : n \in 0..2}}

InitInput ==
    /\ pc = "line"
    /\ source = <<>>
    /\ read_result = NoValue
    /\ balanced = NoValue
    /\ overflow_checks = TRUE
    /\ exprs = <<>>
    /\ InitEval
    /\ IdleCps
    /\ IdleEq
    /\ IdleRepl
    /\ IdleErr

(* get_line_from_stdin and the test of the while loop on the text so far *)
GetLine ==
    /\ pc = "line"
    /\ \E line \in Lines :
          /\ Len(source) + Len(line) <= MaxInput
          /\ source' = source \o line
          /\ balanced' = brackets_are_balanced(source \o line)
          /\ pc' = IF IsError(brackets_are_balanced(source \o line)) THEN "returned"
                   ELSE IF IsOkTrue(brackets_are_balanced(source \o line)) THEN "balanced"
                   ELSE "line"
    /\ outcome' = IF IsError(balanced') THEN balanced' ELSE outcome
    /\ UNCHANGED <<read_result, exprs, value, globals, macros, evaluated, stdout, last,
                   halt, snapshot, called, defined, overflow_checks, cpsVars, eqVars,
                   replVars, errVars>>

(* the rest of repl_iteration up to the call of the reader *)
ReadInput ==
    /\ pc = "balanced"
    /\ IF Join(source) = "exit"
       THEN /\ outcome' = Panic("cya")
            /\ pc' = "aborted"
            /\ UNCHANGED read_result
       ELSE /\ read_result' = read(source)
            /\ pc' = "read"
            /\ UNCHANGED outcome
    /\ UNCHANGED <<source, balanced, exprs, value, globals, macros, evaluated, stdout,
                   last, halt, snapshot, called, defined, overflow_checks, cpsVars,
                   eqVars, replVars, errVars>>

NextInput == GetLine \/ ReadInput

SpecInput == InitInput /\ [][NextInput]_vars

---------------------------------------------------------------------------
(* error.rs: struct Error, built by Error::new, add_filename and           *)
(* add_stack_trace_step and turned into text by display.  The text is a    *)
(* sequence of lines (display joins them with newlines).                   *)

MaxFrames == 5   \* frames of a stack trace

(* usize::MAX; it is 2^64 - 1, written here as 2^31 - 1: it is only       *)
(* compared with the lengths of stack traces                               *)
UsizeMax == 2147483647

Some(x) == <<"Some", x>>

FunctionNames == {NoValue, Some("f"), Some("g")}   \* Option<S>

Error_new(message) ==
    [filename |-> NoValue, message |-> message, stack_trace |-> <<>>]

add_filename(self, filename) == [self EXCEPT !.filename = Some(filename)]

add_stack_trace_step(self, function_name) ==
    [self EXCEPT !.stack_trace =
        Append(@, IF function_name = NoValue THEN "-> in lambda function"
                  ELSE "-> in function '" \o function_name[2] \o "'")]

Reverse(seq) == [i \in DOMAIN seq |-> seq[Len(seq) + 1 - i]]

Take(seq, n) == SubSeq(seq, 1, IF n < Len(seq) THEN n ELSE Len(seq))

(* display: stack_trace.len() - 1 is a subtraction of usize values; on an  *)
(* empty trace it panics in a build that checks overflow and wraps round   *)
(* in one that does not                                                    *)
display(self, full_trace, oc) ==
    LET len == Len(self.stack_trace)
        header == IF self.filename # NoValue
                  THEN "Liszp: error in '" \o self.filename[2] \o "'"
                  ELSE "Liszp: error in <repl>"
        Message(trace_display_count) ==
            <<header, self.message, "stack trace:">>
                \o Take(Reverse(self.stack_trace), trace_display_count)
    IN  IF full_trace
        THEN IF len = 0
             THEN IF oc THEN Panic("attempt to subtract with overflow")
                  ELSE Message(UsizeMax)
             ELSE Message(len - 1)
        ELSE Message(4)

InitError ==
    /\ pc = "error"
    /\ error = Error_new("unbound name")
    /\ displayed = NoValue
    /\ overflow_checks \in BOOLEAN
    /\ exprs = <<>>
    /\ InitEval
    /\ IdleCps
    /\ IdleEq
    /\ IdleRepl
    /\ IdleRead

AddFilename ==
    /\ pc = "error"
    /\ error.filename = NoValue
    /\ error' = add_filename(error, "main.lzp")
    /\ UNCHANGED <<pc, displayed, overflow_checks, evalVars, cpsVars, eqVars,
                   replVars, readVars>>

AddStackTraceStep ==
    /\ pc = "error"
    /\ Len(error.stack_trace) < MaxFrames
    /\ \E function_name \in FunctionNames :
            error' = add_stack_trace_step(error, function_name)
    /\ UNCHANGED <<pc, displayed, overflow_checks, evalVars, cpsVars, eqVars,
                   replVars, readVars>>

DisplayError ==
    /\ pc = "error"
    /\ \E full_trace \in BOOLEAN :
            displayed' = [full_trace |-> full_trace,
                          text |-> display(error, full_trace, overflow_checks)]
    /\ pc' = "displayed"
    /\ UNCHANGED <<error, overflow_checks, evalVars, cpsVars, eqVars, replVars,
                   readVars>>

NextError == AddFilename \/ AddStackTraceStep \/ DisplayError

SpecError == InitError /\ [][NextError]_vars

---------------------------------------------------------------------------
(* Properties of the evaluator, checked under Spec.                        *)

Binding(g, n) == IF n \in DOMAIN g THEN g[n] ELSE NoValue

AlreadyDefined == Error("macro has already been defined")

\* C1: when the current expression is (no-continuation v), evaluation of the
\* top-level expression stops at this turn and eval returns v: the loop takes
\* no further turn on the value no_continuation yielded, even when that value
\* is a lambda bound to a Name.
C1_NoContinuationHalts ==
    /\ (pc = "running" /\ last = "no_continuation") => ~IsCons(value)
    /\ (pc = "returned" /\ halt # NoValue) => outcome = halt

\* C2: a trampoline turn of any built-in other than &panic yields a new
\* current expression or an error value; it never aborts the process.
C2_OnlyPanicAborts ==
    (pc = "aborted" /\ last # "preprocess") => last = "panic"

\* C4: once the lambda calls of a top-level expression have returned, every
\* formal parameter name that the expression did not &def has in the globals
\* the binding it had before the calls: the same value, or none; this holds
\* for nested calls too.
C4_FormalsRestored ==
    (pc = "returned" /\ ~IsFail(outcome)) =>
        \A n \in called \ defined : Binding(globals, n) = Binding(snapshot, n)

\* C4, its case: an expression has returned after calls, one nested in
\* another, whose formal &x shadows a global bound before, and whose formal
\* @@k was unbound before.
C4_Witness ==
    /\ pc = "returned"
    /\ ~IsFail(outcome)
    /\ last = "no_continuation"
    /\ {"&x", "@@k"} \subseteq called \ defined
    /\ Binding(snapshot, "&x") = Integer(7)
    /\ Binding(snapshot, "@@k") = NoValue
    /\ "&g" \in DOMAIN globals
    /\ outcome = Integer(2)

\* C10: a defmacro of a name the macro table already holds fails, and the
\* failed installation leaves the table as it was: the name still maps to
\* its first definition.
C10_TableUnchanged ==
    [][(outcome' = AlreadyDefined /\ outcome # AlreadyDefined) => macros' = macros]_vars

---------------------------------------------------------------------------
(* Properties of the converter, checked under SpecCps.                     *)

InitialContinuation == Name("no-continuation")

IsForm(v, h) == IsCons(v) /\ name(v[2]) = h

Converted == pc \in {"converted", "reconverted"} /\ ~IsFail(cps)

(* the places where convert_conditional puts the continuation it is given *)
RECURSIVE Copies(_)
Copies(e) ==
    IF IsForm(e, "&if") /\ Len(to_list(e)) = 4
    THEN Copies(to_list(e)[2]) * (Copies(to_list(e)[3]) + Copies(to_list(e)[4]))
    ELSE 1

(* the continuation of the call a chain of continuations ends with *)
RECURSIVE TailContinuation(_)
TailContinuation(c) ==
    IF ~IsCons(c) THEN NoValue
    ELSE IF c[2] = InitialContinuation THEN c[2]
    ELSE IF ~IsCons(c[3]) THEN NoValue
    ELSE IF IsForm(c[3][2], "&lambda") /\ Len(to_list(c[3][2])) = 3
         THEN TailContinuation(to_list(c[3][2])[3])
         ELSE c[3][2]

\* C5 as stated: for every source expression, an if form included, the tree
\* convert_expr produces holds exactly one occurrence of no-continuation, and
\* it is the continuation of the computation performed last.
C5_ExactlyOne ==
    Converted =>
        /\ CountName(cps, "no-continuation") = 1
        /\ TailContinuation(cps) = InitialContinuation

\* C5 as the code has it: a source expression that is not itself an if form
\* converts to a tree with exactly one no-continuation, the continuation of
\* the last call of the chain; an if form converts to a tree with one
\* no-continuation for each branch the continuation is copied into.
C5_OnePerBranch ==
    Converted =>
        /\ CountName(cps, "no-continuation") = Copies(src)
        /\ ~IsForm(src, "&if") => TailContinuation(cps) = InitialContinuation
        /\ IsForm(src, "&if") => CountName(cps, "no-continuation") >= 2

\* C5, its case: an if form whose condition is an if form has been converted,
\* and the tree holds four occurrences of no-continuation.
C5_Witness ==
    /\ pc = "converted"
    /\ IsForm(src, "&if")
    /\ IsForm(to_list(src)[2], "&if")
    /\ ~IsFail(cps)
    /\ CountName(cps, "no-continuation") = 4

(* an operand that needs no evaluation: an atom, or a lambda form *)
IsAtomicOperand(a) == ~IsCons(a) \/ IsForm(a, "&lambda")

RECURSIVE CallsAtomic(_)
CallsAtomic(c) ==
    IF ~IsCons(c) THEN TRUE
    ELSE LET comps == to_list(c) IN
         CASE name(comps[1]) = "&quote"  -> TRUE
           [] name(comps[1]) = "&lambda" -> Len(comps) = 3 => CallsAtomic(comps[3])
           [] name(comps[1]) = "&if" ->
                  \A i \in 2..Len(comps) : CallsAtomic(comps[i])
           [] OTHER ->
                  /\ CallsAtomic(comps[1])
                  /\ \A i \in 2..Len(comps) :
                         IsAtomicOperand(comps[i]) /\ CallsAtomic(comps[i])

\* C6: in the tree convert_expr produces, every call whose head is not &if,
\* &lambda or &quote has only atomic operands, never an unevaluated call.
C6_OperandsAtomic == Converted => CallsAtomic(cps)

(* a name the converter made up: no identifier of the source, formatted or *)
(* not, and not the initial continuation                                   *)
IsGenerated(s) == ~(s \in BaseNames \/ StartsWithAmpersand(s) \/ s = "no-continuation")

RECURSIVE LambdasConverted(_)
LambdasConverted(c) ==
    IF ~IsCons(c) THEN TRUE
    ELSE LET comps == to_list(c) IN
         CASE name(comps[1]) = "&quote"  -> TRUE
           [] name(comps[1]) = "&lambda" ->
                  /\ Len(comps) = 3
                  /\ \/ IsName(comps[2]) /\ IsGenerated(name(comps[2]))
                     \/ /\ IsCons(comps[2])
                        /\ comps[2][2] = Name("@@k")
                        /\ AllNames(to_list(comps[2]))
                        /\ CountName(comps[3], "@@k") >= 1
                  /\ LambdasConverted(comps[3])
           [] OTHER -> \A i \in 1..Len(comps) : LambdasConverted(comps[i])

\* C7: every &lambda form of the source, wherever it occurs, appears in the
\* output with formals (@@k a1 ... an), an empty parameter list becoming
\* (@@k), and with a converted body that passes its result to @@k.
C7_LambdasConverted ==
    (Converted /\ CountName(src, "&lambda") > 0) => LambdasConverted(cps)

RECURSIVE IfsHoisted(_)
IfsHoisted(c) ==
    IF ~IsCons(c) THEN TRUE
    ELSE LET comps == to_list(c) IN
         CASE name(comps[1]) = "&quote" -> TRUE
           [] name(comps[1]) = "&if" ->
                  /\ Len(comps) = 4
                  /\ ~IsCons(comps[2])
                  /\ IfsHoisted(comps[3])
                  /\ IfsHoisted(comps[4])
           [] OTHER -> \A i \in 1..Len(comps) : IfsHoisted(comps[i])

IfAsArgument(e) == find_conditional(e) \notin {NoPath, <<>>}

\* C8: when an if occurs as an argument of a call, every &if of the output
\* has the form (&if c t' f') with exactly three operands and an atom c.
C8_IfsHoisted ==
    (Converted /\ IfAsArgument(src)) => IfsHoisted(cps)

RECURSIVE RenameLabels(_)
RenameLabels(v) ==
    CASE v[1] = "Name"  -> IF IsGenerated(v[2]) THEN Name("@@k") ELSE v
      [] v[1] = "Cons"  -> Cons(RenameLabels(v[2]), RenameLabels(v[3]))
      [] v[1] = "Quote" -> Quote(RenameLabels(v[2]))
      [] OTHER -> v

RECURSIVE Size(_)
Size(v) ==
    CASE v[1] = "Cons"  -> 1 + Size(v[2]) + Size(v[3])
      [] v[1] = "Quote" -> 1 + Size(v[2])
      [] OTHER -> 1

Reconverted == pc = "reconverted" /\ ~IsFail(cps2)

\* C9 as stated: conversion is idempotent: convert_expr applied to the tree
\* it produced gives that tree again, up to the names of the @@k labels.
C9_Idempotent ==
    Reconverted => RenameLabels(cps2) = RenameLabels(cps)

\* C9 as the code has it: conversion is never idempotent: convert_expr
\* applied to the tree it produced fails or gives a strictly larger tree,
\* which differs from the first also when the @@k labels are renamed.
C9_SecondConversionGrows ==
    Reconverted =>
        /\ Size(cps2) > Size(cps)
        /\ RenameLabels(cps2) # RenameLabels(cps)

\* C9, its case: the call (f 0) was converted and its output converted
\* again, giving a call with two continuation operands.
C9_Witness ==
    /\ Reconverted
    /\ src = cons_list(<<Name("&f"), Integer(0)>>)
    /\ cps = cons_list(<<Name("&f"), InitialContinuation, Integer(0)>>)
    /\ cps2 = cons_list(<<Name("&f"), InitialContinuation, InitialContinuation, Integer(0)>>)

---------------------------------------------------------------------------
(* Properties of &equals?, checked under SpecEq.                           *)

\* C3: the equality of &equals? is an equivalence relation over Nil, Bool,
\* Integer, String, Name, Cons and Quote values: reflexive, symmetric and
\* transitive; two Cons are equal iff their cars and their cdrs are, and two
\* Quotes iff what they quote is.
C3_Equivalence ==
    pc = "compared" =>
        /\ \A i \in 1..3 : eqres[i][i]
        /\ \A i, j \in 1..3 : eqres[i][j] => eqres[j][i]
        /\ \A i, j, k \in 1..3 : (eqres[i][j] /\ eqres[j][k]) => eqres[i][k]
        /\ \A i, j \in 1..3 :
               /\ (IsCons(eqargs[i]) /\ IsCons(eqargs[j])) =>
                      (eqres[i][j] <=> /\ ValueEq(eqargs[i][2], eqargs[j][2])
                                       /\ ValueEq(eqargs[i][3], eqargs[j][3]))
               /\ (eqargs[i][1] = "Quote" /\ eqargs[j][1] = "Quote") =>
                      (eqres[i][j] <=> ValueEq(eqargs[i][2], eqargs[j][2]))

(* the names of the specification's table of built-in operators *)
BuiltinNames ==
    { "&def", "&if", "&quote", "&eval", "&cons", "&car", "&cdr", "&print",
      "&println", "&panic", "&equals?", "&bool?", "&cons?", "&float?", "&int?",
      "&name?", "&nil?", "&quote?", "&str?", "&+", "&-", "&*", "&/", "&%",
      "&and", "&or", "&xor", "&not", "&<", "&>", "&<=", "&>=", "&==", "&!=",
      "no-continuation" }

\* C13: a turn of the trampoline on a call whose head is the name of a
\* built-in operator, the type predicate &float? among them, is never the
\* turn of a user function call: the head is not looked up in the globals.
C13_BuiltinsNotLookedUp ==
    [][(pc = "running" /\ IsCons(value) /\ name(value[2]) \in BuiltinNames)
            => last' # "evaluate_lambda_funcall"]_vars

(* what &quote is to yield for the arguments (k, v) *)
QuotedOnce(k, v) == cons_list(<<k, IF v[1] = "Quote" THEN v ELSE Quote(v)>>)

\* C14: the turn on (&quote k v) yields (k Quote(v)), v not evaluated: a
\* name v is quoted as a name, bound in the globals or not, and no error is
\* returned; a v that is a Quote already is handed to k as it is.
C14_QuoteDoesNotEvaluate ==
    [][(pc = "running" /\ IsForm(value, "&quote") /\ Len(to_list(value)) = 3)
            => /\ pc' = "running"
               /\ value' = QuotedOnce(to_list(value)[2], to_list(value)[3])]_vars

(* what &eval is to yield for the arguments (k, v), v resolved to resolved *)
Evaluated(k, v, resolved, oc) ==
    IF resolved[1] = "Quote"
    THEN convert_expr_with_continuation(resolved[2], k, oc)
    ELSE cons_list(<<k, v>>)

\* C15: the turn on (&eval k v), v resolving to Quote(inner), yields the
\* conversion of inner with the continuation k as the next expression, so
\* that k receives the value of inner; for a v that is no Quote it yields
\* (k v).
C15_EvalConvertsWithContinuation ==
    [][(/\ pc = "running" /\ IsForm(value, "&eval") /\ Len(to_list(value)) = 3
        /\ ~IsFail(resolve(globals, to_list(value)[3]))
        /\ pc' = "running")
            => value' = Evaluated(to_list(value)[2], to_list(value)[3],
                                  resolve(globals, to_list(value)[3]),
                                  overflow_checks)]_vars

(* v is (&/ k x1 .. xn), the operands Integers and a divisor among them 0 *)
IntegerDivisionByZero(g, v) ==
    /\ IsForm(v, "&/")
    /\ LET args == to_list(v[3]) IN
       /\ Len(args) >= 3
       /\ \A i \in 2..Len(args) :
              ~IsFail(resolve(g, args[i])) /\ resolve(g, args[i])[1] = "Integer"
       /\ \E i \in 3..Len(args) : resolve(g, args[i]) = Integer(0)

\* C16: the turn on an integer division by zero ends eval with an error
\* value (eval returns Err); the process is not aborted.
C16_DivisionByZeroIsError ==
    [][(pc = "running" /\ IntegerDivisionByZero(globals, value))
            => (pc' = "returned" /\ IsError(outcome'))]_vars

(* the variant each type predicate of the specification's table names *)
TestedVariant ==
    [p \in {"&bool?", "&cons?", "&float?", "&int?", "&name?", "&nil?", "&str?"} |->
        CASE p = "&bool?" -> "Bool"
          [] p = "&cons?" -> "Cons"
          [] p = "&float?" -> "Float"
          [] p = "&int?" -> "Integer"
          [] p = "&name?" -> "Name"
          [] p = "&nil?" -> "Nil"
          [] p = "&str?" -> "String"]

(* v, resolved to denoted, has the variant once at most one Quote is removed *)
HasVariant(denoted, variant) ==
    (IF denoted[1] = "Quote" THEN denoted[2] ELSE denoted)[1] = variant

\* C26: the turn on a type predicate applied to (k, v) yields (k Bool(b)), b
\* decided on the value v denotes: a Name operand is resolved through the
\* globals first (an unbound one ends eval with an error), at most one Quote
\* is removed, and b says whether the rest has the variant the predicate
\* names; (name? x) is false for x bound to an Integer.
C26_PredicatesTestDenotedValue ==
    [][(/\ pc = "running" /\ IsCons(value)
        /\ name(value[2]) \in DOMAIN TestedVariant
        /\ Len(to_list(value)) = 3)
            => LET k == to_list(value)[2]
                   denoted == resolve(globals, to_list(value)[3])
               IN  IF IsFail(denoted)
                   THEN pc' = "returned" /\ outcome' = denoted
                   ELSE /\ pc' = "running"
                        /\ value' = cons_list(<<k,
                               Bool(HasVariant(denoted, TestedVariant[name(value[2])]))>>)]_vars

(* the paths of e that lead to a form (&quote k q), none inside another *)
RECURSIVE QuotePaths(_)
QuotePaths(e) ==
    IF ~IsCons(e) THEN {}
    ELSE IF IsForm(e, "&quote") /\ IsListable(e) /\ Len(to_list(e)) = 3 THEN {<<>>}
    ELSE {<<2>> \o p : p \in QuotePaths(e[2])} \cup {<<3>> \o p : p \in QuotePaths(e[3])}

(* the body and the argument map of the lambda call v: [ok, body, map] *)
LambdaCall(g, v) ==
    LET resolved == resolve(g, v[2]) IN
    IF IsFail(resolved) \/ ~IsListable(resolved) \/ ~IsListable(v[3])
    THEN [ok |-> FALSE, body |-> Nil, map |-> EmptyMap]
    ELSE LET fc == to_list(resolved) IN
         IF Len(fc) # 3 \/ name(fc[1]) # "&lambda" \/ get_arg_names(fc[2]).err # NoValue
         THEN [ok |-> FALSE, body |-> Nil, map |-> EmptyMap]
         ELSE LET am == build_argument_hashmap(get_arg_names(fc[2]).names, to_list(v[3]))
              IN  [ok |-> am.err = NoValue, body |-> fc[3], map |-> am.map]

(* the part of an argument map that binds names the converter made up:    *)
(* the labels that stand for the unquoted parts of a quoted expression     *)
LabelsOnly(arg_map) == [n \in {m \in DOMAIN arg_map : IsGenerated(m)} |-> arg_map[n]]

\* C28: calling a lambda never changes the content of a quoted expression in
\* its body: for every (&quote k q) of the body, the q that the turn on the
\* call leaves at that place is q as written, a Name equal to a formal
\* parameter not replaced by the argument; only the labels of unquoted parts
\* are replaced.
C28_QuotedBodyKept ==
    [][(/\ pc = "running" /\ IsCons(value)
        /\ Handler(name(value[2])) = "evaluate_lambda_funcall"
        /\ LambdaCall(globals, value).ok
        /\ pc' = "running")
            => \A p \in QuotePaths(LambdaCall(globals, value).body) :
                  to_list(NodeAt(value', p))[3] =
                      recursively_bind_args(
                          to_list(NodeAt(LambdaCall(globals, value).body, p))[3],
                          LabelsOnly(LambdaCall(globals, value).map))]_vars

\* C29: resolving a Name through the globals always yields a value that is
\* no bare Name: after any sequence of &def steps, (def y v) followed by
\* (def x y) among them, every name is bound to a value, so that an operand
\* x of a built-in is seen as v and not as the Name y.
C29_GlobalsHoldValues ==
    \A n \in DOMAIN globals : resolve(globals, Name(n))[1] # "Name"

(* Expressions made of integer and boolean literals, print, println, +    *)
(* and if: the value of one, and the values it prints when its operands    *)
(* are computed left to right, innermost first, each once, before the      *)
(* operator is applied, an if computing its condition and the branch taken.*)
RECURSIVE PrintsOnly(_)
PrintsOnly(e) ==
    IF ~IsCons(e) THEN e[1] \in {"Integer", "Bool"}
    ELSE LET c == to_list(e) IN
         /\ \/ name(c[1]) \in {"print", "println"} /\ Len(c) = 2
            \/ name(c[1]) = "+" /\ Len(c) = 3
            \/ name(c[1]) = "if" /\ Len(c) = 4
         /\ \A i \in 2..Len(c) : PrintsOnly(c[i])

RECURSIVE ValueOf(_)
ValueOf(e) ==
    IF ~IsCons(e) THEN e
    ELSE LET c == to_list(e) IN
         CASE name(c[1]) = "+"  -> Integer(ValueOf(c[2])[2] + ValueOf(c[3])[2])
           [] name(c[1]) = "if" -> IF ValueOf(c[2]) = Bool(TRUE)
                                   THEN ValueOf(c[3]) ELSE ValueOf(c[4])
           [] OTHER -> ValueOf(c[2])

RECURSIVE PrintsOf(_)
PrintsOf(e) ==
    IF ~IsCons(e) THEN <<>>
    ELSE LET c == to_list(e) IN
         CASE name(c[1]) = "+"  -> PrintsOf(c[2]) \o PrintsOf(c[3])
           [] name(c[1]) = "if" -> PrintsOf(c[2]) \o
                                   (IF ValueOf(c[2]) = Bool(TRUE)
                                    THEN PrintsOf(c[3]) ELSE PrintsOf(c[4]))
           [] OTHER -> PrintsOf(c[2]) \o <<ValueOf(c[2])>>

Printed == [i \in DOMAIN stdout |-> stdout[i][1]]

IsPrefix(s, t) == Len(s) <= Len(t) /\ s = SubSeq(t, 1, Len(s))

\* C17: while a first top-level expression made of prints, sums and
\* conditionals is evaluated, what has been written to stdout is a prefix of
\* what its operands print when computed left to right, innermost first,
\* each once and before the operator is applied; it is all of it when eval
\* has returned a value.
C17_EffectsInOrder ==
    (evaluated = <<>> /\ exprs # <<>> /\ IsCons(Head(exprs)) /\ PrintsOnly(Head(exprs)))
        => /\ IsPrefix(Printed, PrintsOf(Head(exprs)))
           /\ (pc = "returned" /\ ~IsFail(outcome))
                  => Printed = PrintsOf(Head(exprs))

\* C18: eval_file takes the expressions one at a time, in order: an
\* expression leaves the file only when its eval has returned a value, which
\* is then pushed; a new expression is preprocessed only between two
\* evaluations (the only step that enters the loop of eval or changes the
\* macro table starts from eval_file's loop, with the globals and macros
\* the earlier expressions left); when eval
\* returns an error, eval_file returns that error with the later expressions
\* untouched, and takes no step after that.
C18_SequentialUntilError ==
    [][/\ pc # "failed"
       /\ (exprs' # exprs)
             => /\ pc = "returned" /\ ~IsError(outcome) /\ pc' = "idle"
                /\ exprs' = Tail(exprs)
                /\ evaluated' = Append(evaluated, outcome)
                /\ globals' = globals /\ macros' = macros
       /\ (macros' # macros \/ (pc # "running" /\ pc' = "running"))
             => pc = "idle" /\ exprs # <<>>
       /\ (pc = "returned" /\ IsError(outcome))
             => /\ pc' = "failed" /\ outcome' = outcome
                /\ exprs' = exprs /\ evaluated' = evaluated
                /\ globals' = globals /\ macros' = macros /\ stdout' = stdout]_vars

\* C18 (witness): eval_file has returned the error of the second
\* expression, with one value pushed and the two later expressions, a print
\* and a def, not evaluated: nothing was printed and y is not bound.
C18_Witness ==
    /\ pc = "failed" /\ IsError(outcome)
    /\ Len(evaluated) = 1 /\ Len(exprs) = 3
    /\ stdout = <<>> /\ "&y" \notin DOMAIN globals /\ "&x" \in DOMAIN globals

---------------------------------------------------------------------------
(* Properties of the macro expanders.                                      *)

RECURSIVE CallsMacro(_, _)
(* v holds a list whose head is the name of a macro of the table *)
CallsMacro(v, table) ==
    /\ IsCons(v)
    /\ \/ name(v[2]) \in DOMAIN table
       \/ \E i \in DOMAIN to_list(v) : CallsMacro(to_list(v)[i], table)

IsMacroCall(e, table) ==
    IsListable(e) /\ to_list(e) # <<>> /\ name(to_list(e)[1]) \in DOMAIN table

\* C24: macro names and global names do not interfere: expanding a call of
\* a macro stored under key m leaves the global environment exactly as it
\* was before the expansion started; a global bound under the same key m
\* keeps its value.
C24_ExpansionKeepsGlobals ==
    [][(exprs # <<>> /\ IsMacroCall(Head(exprs), macros)
            /\ Macro_parse_macro_definition(Head(exprs)) = NoValue)
          => globals' = globals]_vars

\* C27: when expand_macro has finished, with a value or with an error, the
\* macro is again in the macro table under its name and the function that
\* was inserted under that name is no longer in the global environment.
C27_MacroRestoredAfterExpansion ==
    [][(exprs # <<>> /\ IsMacroCall(Head(exprs), macros)
            /\ Macro_parse_macro_definition(Head(exprs)) = NoValue)
          => LET m == name(to_list(Head(exprs))[1]) IN
             /\ m \in DOMAIN macros'
             /\ macros'[m] = macros[m]
             /\ ~(m \in DOMAIN globals' /\ globals'[m] = macros[m][4])]_vars

RECURSIVE HoldsDefmacro(_)
(* v is, or holds at any depth, a list whose head is the name defmacro *)
HoldsDefmacro(v) ==
    /\ IsCons(v)
    /\ \/ name(v[2]) = "defmacro"
       \/ \E i \in DOMAIN to_list(v) : HoldsDefmacro(to_list(v)[i])

(* v is no macro definition itself and holds one as a sub-expression *)
NestedDefmacro(v) == HoldsDefmacro(v) /\ name(v[2]) # "defmacro"

\* C12: a top-level expression that holds a defmacro form as a
\* sub-expression makes eval return an error, and the macro table is the
\* same after it as before: the nested definition installs nothing.
C12_NestedDefmacroRejected ==
    [][(pc = "idle" /\ pc' # "idle" /\ exprs # <<>> /\ NestedDefmacro(Head(exprs)))
            => (IsError(outcome') /\ macros' = macros)]_vars

---------------------------------------------------------------------------
(* Properties of the read-eval-print loop, checked under SpecRepl.         *)

\* C19: when an iteration of the REPL ends with an error value, run_repl
\* writes the error and is at the head of its loop again, on the same
\* evaluator: the step leaves the globals and the macro table as they are,
\* and no step of the REPL removes a global binding or a macro.
C19_ReplResumesAfterError ==
    [][/\ (pc = "returned" /\ IsError(outcome))
             => /\ pc' = "prompt"
                /\ stderr' = Append(stderr, outcome)
                /\ globals' = globals /\ macros' = macros
       /\ DOMAIN globals \subseteq DOMAIN globals'
       /\ DOMAIN macros \subseteq DOMAIN macros']_vars

\* C19 (witness): the call of the macro m has ended an iteration with an
\* error, the error has been written, and run_repl is at the head of its
\* loop with the macro m and the binding of x still there.
C19_Witness ==
    /\ pc = "prompt" /\ exprs = <<>>
    /\ stderr = <<Error("Function takes n arguments but received m")>>
    /\ outcome = stderr[1]
    /\ "m" \in DOMAIN macros /\ "&x" \in DOMAIN globals

---------------------------------------------------------------------------
(* Properties of the reader, checked under SpecRead.                       *)

(* the brackets of a text, in order *)
Brackets(s) == SelectSeq(s, LAMBDA c : c \in Opening \cup Closing)

(* the opening brackets still open after the brackets bs, innermost last;  *)
(* <<"bad">> once a closing bracket has met no open bracket or one of      *)
(* another style                                                           *)
RECURSIVE OpenAfter(_, _)
OpenAfter(bs, open) ==
    IF bs = <<>> \/ open = <<"bad">> THEN open
    ELSE IF Head(bs) \in Opening THEN OpenAfter(Tail(bs), Append(open, Head(bs)))
    ELSE IF open # <<>> /\ Head(bs) = Expected(open[Len(open)])
    THEN OpenAfter(Tail(bs), SubSeq(open, 1, Len(open) - 1))
    ELSE <<"bad">>

WellNested(s) == OpenAfter(Brackets(s), <<>>) = <<>>

(* the number of top-level expressions of a well-nested text: the lexemes  *)
(* met while no bracket is open that are no closing bracket                *)
RECURSIVE TopLevel(_, _)
TopLevel(lexemes, depth) ==
    IF lexemes = <<>> THEN 0
    ELSE LET c == Head(lexemes)[1] IN
         IF c \in Opening
         THEN (IF depth = 0 THEN 1 ELSE 0) + TopLevel(Tail(lexemes), depth + 1)
         ELSE IF c \in Closing THEN TopLevel(Tail(lexemes), depth - 1)
         ELSE (IF depth = 0 THEN 1 ELSE 0) + TopLevel(Tail(lexemes), depth)

\* C20: read ends with a syntax error for every text whose brackets are not
\* well nested (one still open at the end, a closing one of another style
\* than the innermost open one, a closing one with none open); for a
\* well-nested text it ends with no error and one value per top-level
\* expression.
C20_BracketErrorsReported ==
    pc = "read" =>
        IF WellNested(source)
        THEN read_result.err = NoValue
                /\ Len(read_result.values) = TopLevel(find_iter(source, 1), 0)
        ELSE IsPanic(read_result.err)

\* C21: for every expression e, the text made of a quote character followed
\* by e reads as the one value (quote v), v being the value e reads as: the
\* quote character is not dropped and e is not read unquoted.
C21_QuoteCharReadsAsQuote ==
    (/\ pc = "read"
     /\ Len(source) > 1
     /\ source[1] = "'"
     /\ read(Tail(source)).err = NoValue
     /\ Len(read(Tail(source)).values) = 1)
        => /\ read_result.err = NoValue
           /\ read_result.values =
                <<cons_list(<<Name("quote"), read(Tail(source)).values[1]>>)>>

(* a text without whitespace: the characters of s that are no space, and  *)
(* the pieces of a printed text that are no whitespace, concatenated       *)
Unspaced(pieces) == Join(SelectSeq(pieces, LAMBDA c : c \notin {" ", " . "}))

(* s is one well-formed expression: its brackets are well nested, it holds *)
(* one top-level expression and no quote character                         *)
WellFormed(s) ==
    /\ WellNested(s)
    /\ TopLevel(find_iter(s, 1), 0) = 1
    /\ \A i \in DOMAIN s : s[i] # "'"

\* C22: reader round trip: for every well-formed source expression (an
\* atom, or a list written with any of the three bracket styles, the empty
\* list included), the text printed for the value read from it is the source
\* text again, up to whitespace.
C22_ReadPrintRoundTrip ==
    (pc = "read" /\ WellFormed(source))
        => /\ read_result.err = NoValue
           /\ Len(read_result.values) = 1
           /\ Unspaced(Display(read_result.values[1])) = Unspaced(source)

---------------------------------------------------------------------------
(* Properties of Error::display, checked under SpecError.                  *)

(* the frames listed by a displayed text: its lines after "stack trace:" *)
Frames(text) == SubSeq(text, 4, Len(text))

\* C23: display(true) lists every frame of the stack trace and display(false)
\* the most recent four (all of them when there are fewer), most recent
\* first; for every length of the trace, the empty one included, it yields
\* the text with the message.
C23_DisplayListsFrames ==
    pc = "displayed" =>
        /\ ~IsPanic(displayed.text)
        /\ displayed.text[2] = error.message
        /\ Frames(displayed.text) =
                IF displayed.full_trace THEN Reverse(error.stack_trace)
                ELSE Take(Reverse(error.stack_trace), 4)

---------------------------------------------------------------------------
(* Properties of the input loop of the REPL, checked under SpecInput.      *)

(* opening brackets minus closing brackets of the first n characters *)
Balance(s, n) ==
    Cardinality({i \in 1..n : s[i] \in Opening})
        - Cardinality({i \in 1..n : s[i] \in Closing})

(* some prefix of s holds more closing than opening brackets *)
NegativePrefix(s) == \E n \in 1..Len(s) : Balance(s, n) < 0

\* C25: brackets_are_balanced returns an error for every text some prefix
\* of which holds more closing than opening brackets, and returns true only
\* when opening minus closing brackets is zero for the whole text and not
\* negative at any prefix; the text is handed to the reader only when it
\* returned true.
C25_BalancedBeforeReading ==
    /\ (balanced # NoValue /\ NegativePrefix(source)) => IsError(balanced)
    /\ IsOkTrue(balanced) =>
            Balance(source, Len(source)) = 0 /\ ~NegativePrefix(source)
    /\ pc = "read" => IsOkTrue(balanced)

---------------------------------------------------------------------------
(* Properties of &cons, &car and &cdr, checked under SpecPair.             *)

\* C30: cons, car and cdr round-trip: for all operands a and b that &cons
\* accepts (literals, Nil, Quote-wrapped values of any variant), &car of the
\* pair built from a and b is equal to a and &cdr of it is equal to b, by
\* the equality of &equals?.
C30_ConsCarCdrRoundTrip ==
    (pc = "compared" /\ Len(eqres) = 5) => eqres[4] = Bool(TRUE) /\ eqres[5] = Bool(TRUE)

=============================================================================
